---- MODULE Spec2Model ----
(***************************************************************************)
(* Model of the integrated site builder (danharris923/scale-me):           *)
(*   shared/config.py       get_server_status, validate_existing_server,   *)
(*                          load_niche_config                              *)
(*   shared/utils.py        format_brand_name, create_project_structure,   *)
(*                          save_file                                      *)
(*   site-integration/generator_agent.py   SiteGeneratorAgent              *)
(*   main.py                IntegratedSystemAgent.deploy_complete_system   *)
(*                                                                         *)
(* Text is modelled as a sequence of one-character strings, a JSON value   *)
(* as a record [t |-> <type tag>, ...], a Python exception as the name of  *)
(* its class.                                                              *)
(***************************************************************************)
EXTENDS Integers, Sequences, FiniteSets, TLC

-----------------------------------------------------------------------------
(* Text helpers *)

UpperLetters == <<"A","B","C","D","E","F","G","H","I","J","K","L","M",
                  "N","O","P","Q","R","S","T","U","V","W","X","Y","Z">>

LowerLetters == <<"a","b","c","d","e","f","g","h","i","j","k","l","m",
                  "n","o","p","q","r","s","t","u","v","w","x","y","z">>

\* str.lower() on one character
LowerChar(c) ==
  IF \E i \in 1..Len(UpperLetters) : UpperLetters[i] = c
  THEN LowerLetters[CHOOSE i \in 1..Len(UpperLetters) : UpperLetters[i] = c]
  ELSE c

\* str.lower()
Lower(s) == [i \in 1..Len(s) |-> LowerChar(s[i])]

\* the Python test  needle in hay  on text
Contains(hay, needle) ==
  \E i \in 1..(Len(hay) - Len(needle) + 1) :
    SubSeq(hay, i, i + Len(needle) - 1) = needle

\* repr() of a str without quotes in it
PyRepr(s) == <<"'">> \o s \o <<"'">>

RECURSIVE PyJoinRepr(_)
PyJoinRepr(l) ==
  IF Len(l) = 0 THEN <<>>
  ELSE IF Len(l) = 1 THEN PyRepr(l[1])
  ELSE PyRepr(l[1]) \o <<",", " ">> \o PyJoinRepr(Tail(l))

\* str() of the value bound to available_sites: a list of str, or None
PyStrSites(v) ==
  IF v.t = "null" THEN <<"N","o","n","e">>
  ELSE <<"[">> \o PyJoinRepr(v.v) \o <<"]">>

-----------------------------------------------------------------------------
(* The external server as seen over HTTP.  A response is                   *)
(*   [net |-> "ok" | "fail", code |-> status code, body |-> JSON body]     *)
(* net = "fail" is a transport failure or a timeout (requests raises).     *)

NoBody == [json |-> "invalid"]

\* typed JSON field values
Absent == [t |-> "absent"]

JNull == [t |-> "null"]

JInt(n) == [t |-> "int", n |-> n]

JList(l) == [t |-> "list", v |-> l]

Amazon == <<"a","m","a","z","o","n">>

Cabelas == <<"c","a","b","e","l","a","s">>

\* counts the server may report in the count field
MaxCount == 7

CountValues == {Absent, JNull} \cup {JInt(n) : n \in {-1, 0, 1, 5, MaxCount}}

\* product arrays the server may return; a product record is its index
ProductLists == {<<>>, <<1, 2>>, <<1, 2, 3, 4>>, <<1, 2, 3, 4, 5, 6, 7>>}

ProductsValues == {Absent, JNull} \cup {JList(l) : l \in ProductLists}

SiteLists ==
  { <<>>,
    << Amazon >>,
    << <<"C","a","b","e","l","a","s">> >>,
    << <<"e","b","a","y">> >>,
    << <<"e","b","a","y">>, <<"A","M","A","Z","O","N">> >>,
    << <<"a","m","a">>, <<"z","o","n">> >> }

SitesValues == {Absent, JNull} \cup {JList(l) : l \in SiteLists}

HealthResponses ==
  { [net |-> "ok", code |-> 200, body |-> NoBody],
    [net |-> "ok", code |-> 204, body |-> NoBody],
    [net |-> "ok", code |-> 503, body |-> NoBody],
    [net |-> "fail", code |-> 0, body |-> NoBody],
    [net |-> "timeout", code |-> 0, body |-> NoBody] }

ProductBodies ==
  { [json |-> "invalid"], [json |-> "array"] } \cup
  { [json |-> "object", count |-> c, products |-> p] :
      c \in CountValues, p \in ProductsValues }

ProductsResponses ==
  { [net |-> "fail", code |-> 0, body |-> NoBody],
    [net |-> "timeout", code |-> 0, body |-> NoBody],
    [net |-> "ok", code |-> 500, body |-> NoBody] } \cup
  { [net |-> "ok", code |-> 200, body |-> b] : b \in ProductBodies }

SitesBodies ==
  { [json |-> "invalid"], [json |-> "array"] } \cup
  { [json |-> "object", sites |-> s] : s \in SitesValues }

SitesResponses ==
  { [net |-> "fail", code |-> 0, body |-> NoBody],
    [net |-> "ok", code |-> 404, body |-> NoBody] } \cup
  { [net |-> "ok", code |-> 200, body |-> b] : b \in SitesBodies }

-----------------------------------------------------------------------------
(* Python control flow: the outcome of a block is a returned value or a    *)
(* raised exception, named by its class.                                   *)

Return(v) == [raised |-> FALSE, exc |-> "", msg |-> "", value |-> v]

\* raise e(m): class e, str(e) = m
RaiseMsg(e, m, v) == [raised |-> TRUE, exc |-> e, msg |-> m, value |-> v]

\* an exception raised by the library; its text is modelled by its class
Raise(e, v) == RaiseMsg(e, e, v)

\* the classes a clause  except Exception  catches
PyExceptions ==
  { "Exception", "ConnectionError", "Timeout", "JSONDecodeError",
    "AttributeError", "TypeError", "KeyError", "IndexError",
    "FileNotFoundError", "OSError" }

CatchesTransportOnly(e) == e \in {"ConnectionError", "Timeout"}

CatchesException(e) == e \in PyExceptions

\* requests.get(...) then, on 200, response.json() and .get on the body:
\* the exception this raises, "" when it raises none
ReadError(r) ==
  IF r.net = "fail" THEN "ConnectionError"
  ELSE IF r.net = "timeout" THEN "Timeout"
  ELSE IF r.code = 200 /\ r.body.json = "invalid" THEN "JSONDecodeError"
  ELSE IF r.code = 200 /\ r.body.json = "array" THEN "AttributeError"
  ELSE ""

\* requests.get(...) alone
NetError(r) ==
  IF r.net = "fail" THEN "ConnectionError"
  ELSE IF r.net = "timeout" THEN "Timeout"
  ELSE ""

\* dict.get(key, default) on a parsed field
GetOr(field, default) == IF field.t = "absent" THEN default ELSE field

-----------------------------------------------------------------------------
(* shared/config.py: get_server_status *)

NoStatus ==
  [ healthy |-> FALSE, error |-> "",
    products_count |-> Absent, available_sites |-> Absent ]

StatusTryCountsProducts(h, p, s) ==
  IF NetError(h) # "" THEN Raise(NetError(h), NoStatus)
  ELSE IF ReadError(p) # "" THEN Raise(ReadError(p), NoStatus)
  ELSE IF ReadError(s) # "" THEN Raise(ReadError(s), NoStatus)
  ELSE Return(
    [ healthy |-> (h.code = 200),
      error |-> "",
      products_count |->
        IF p.code = 200
        THEN JInt(IF p.body.products.t = "list" THEN Len(p.body.products.v) ELSE 0)
        ELSE JInt(0),
      available_sites |->
        IF s.code = 200 THEN GetOr(s.body.sites, JList(<<>>))
        ELSE JList(<<>>) ])

StatusTryAny2xx(h, p, s) ==
  IF NetError(h) # "" THEN Raise(NetError(h), NoStatus)
  ELSE IF ReadError(p) # "" THEN Raise(ReadError(p), NoStatus)
  ELSE IF ReadError(s) # "" THEN Raise(ReadError(s), NoStatus)
  ELSE Return(
    [ healthy |-> (h.code >= 200 /\ h.code < 300),
      error |-> "",
      products_count |->
        IF p.code = 200 THEN GetOr(p.body.count, JInt(0)) ELSE JInt(0),
      available_sites |->
        IF s.code = 200 THEN GetOr(s.body.sites, JList(<<>>))
        ELSE JList(<<>>) ])

\* the try block, lines 118-145
StatusTry(h, p, s) ==
  IF NetError(h) # "" THEN Raise(NetError(h), NoStatus)
  ELSE IF ReadError(p) # "" THEN Raise(ReadError(p), NoStatus)
  ELSE IF ReadError(s) # "" THEN Raise(ReadError(s), NoStatus)
  ELSE Return(
    [ healthy |-> (h.code = 200),
      error |-> "",
      products_count |->
        IF p.code = 200 THEN GetOr(p.body.count, JInt(0)) ELSE JInt(0),
      available_sites |->
        IF s.code = 200 THEN GetOr(s.body.sites, JList(<<>>))
        ELSE JList(<<>>) ])

StatusExceptTransportOnly(o) ==
  IF o.raised /\ CatchesTransportOnly(o.exc)
  THEN Return([ healthy |-> FALSE, error |-> o.msg,
                products_count |-> Absent, available_sites |-> Absent ])
  ELSE o

\* the except clause, lines 147-153
StatusExcept(o) ==
  IF o.raised /\ CatchesException(o.exc)
  THEN Return([ healthy |-> FALSE, error |-> o.msg,
                products_count |-> Absent, available_sites |-> Absent ])
  ELSE o

GetServerStatus(h, p, s) == StatusExcept(StatusTry(h, p, s))

ExpectedSources == {Amazon, Cabelas}

SourceFound(sites) ==
  \E source \in ExpectedSources : Contains(Lower(PyStrSites(sites)), source)

(* shared/config.py: validate_existing_server.  The value is True or     *)
(* False; the comparison  products_count < 1  on a value that is no       *)
(* number raises TypeError, a missing key raises KeyError.  msg is the    *)
(* line it prints.                                                         *)
ValidateStatus(status) ==
  IF ~status.healthy
    THEN Return([ok |-> FALSE, msg |-> "not healthy"])
  ELSE IF status.products_count.t = "absent"
    THEN Raise("KeyError", [ok |-> FALSE, msg |-> ""])
  ELSE IF status.products_count.t # "int"
    THEN Raise("TypeError", [ok |-> FALSE, msg |-> ""])
  ELSE IF status.products_count.n < 1
    THEN Return([ok |-> FALSE, msg |-> "no products"])
  ELSE IF ~SourceFound(status.available_sites)
    THEN Return([ok |-> FALSE, msg |-> "sources not found"])
  ELSE Return([ok |-> TRUE, msg |-> "healthy"])

ValidateExistingServer(h, p, s) ==
  LET st == GetServerStatus(h, p, s)
  IN  IF st.raised THEN RaiseMsg(st.exc, st.msg, [ok |-> FALSE, msg |-> ""])
      ELSE ValidateStatus(st.value)

-----------------------------------------------------------------------------
(* shared/utils.py: format_brand_name *)

IsAlnum(c) ==
  \/ \E i \in 1..Len(LowerLetters) : LowerLetters[i] = c
  \/ \E i \in 1..Len(UpperLetters) : UpperLetters[i] = c
  \/ c \in {"0","1","2","3","4","5","6","7","8","9"}

\* str.replace(" ", "-").replace("_", "-")
Hyphenate(s) ==
  [i \in 1..Len(s) |-> IF s[i] \in {" ", "_"} THEN "-" ELSE s[i]]

IsSlugChar(c) == IsAlnum(c) \/ c = "-"

FormatBrandSlugUnfiltered(brand_name) == Hyphenate(Lower(brand_name))

\* format_brand_name(brand_name)["slug"], lines 97-98
FormatBrandSlug(brand_name) ==
  SelectSeq(Hyphenate(Lower(brand_name)), IsSlugChar)

AdventureGearPro ==
  <<"A","d","v","e","n","t","u","r","e"," ","G","e","a","r"," ","P","r","o">>

TrailX == <<"T","r","a","i","l","_","X","!">>

\* brand names a caller may pass
Brands == {AdventureGearPro, TrailX}

Slugs == {FormatBrandSlug(b) : b \in Brands}

\* main.py line 211: summary["brand_name"].lower().replace(" ", "-")
RecordSlug(brand_name) ==
  [ i \in 1..Len(brand_name) |->
      IF brand_name[i] = " " THEN "-" ELSE LowerChar(brand_name[i]) ]

RecordSlugs == {RecordSlug(b) : b \in Brands}

-----------------------------------------------------------------------------
(* shared/utils.py: render_template *)

\* str.replace(old, new) for a non-empty old: every occurrence, found from
\* the left, none overlapping another
RECURSIVE PyReplace(_, _, _)
PyReplace(s, old, new) ==
  IF Len(s) < Len(old) THEN s
  ELSE IF SubSeq(s, 1, Len(old)) = old
    THEN new \o PyReplace(SubSeq(s, Len(old) + 1, Len(s)), old, new)
  ELSE <<Head(s)>> \o PyReplace(Tail(s), old, new)

\* the lines between the brackets of json.dumps(value, indent=2)
RECURSIVE JsonJoin(_)
JsonJoin(entries) ==
  IF Len(entries) = 1 THEN <<" ", " ">> \o entries[1]
  ELSE <<" ", " ">> \o entries[1] \o <<",", "\n">> \o JsonJoin(Tail(entries))

\* json.dumps(value, indent=2) of a list of strings or of a dict of strings
JsonDumps(value) ==
  LET q(s)    == <<"\"">> \o s \o <<"\"">>
      entries == IF value.t = "list"
                 THEN [ i \in 1..Len(value.v) |-> q(value.v[i]) ]
                 ELSE [ i \in 1..Len(value.d) |->
                          q(value.d[i].k) \o <<":", " ">> \o q(value.d[i].v) ]
      open    == IF value.t = "list" THEN "[" ELSE "{"
      close   == IF value.t = "list" THEN "]" ELSE "}"
  IN  IF Len(entries) = 0 THEN <<open, close>>
      ELSE <<open, "\n">> \o JsonJoin(entries) \o <<"\n", close>>

ValueTextStr(value) ==
  CASE value.t = "str" -> value.s
    [] value.t = "int" -> << <<"0","1","2","3","4","5","6","7","8","9">>[value.n + 1] >>
    [] value.t = "list" -> <<"[">> \o PyJoinRepr(value.v) \o <<"]">>
    [] OTHER -> <<"{", "}">>

\* lines 206-209: str(value), after json.dumps for a dict or a list
ValueText(value) ==
  CASE value.t = "str" -> value.s
    [] value.t = "int" -> << <<"0","1","2","3","4","5","6","7","8","9">>[value.n + 1] >>
    [] OTHER -> JsonDumps(value)

RECURSIVE RenderTemplateStrict(_, _)
RenderTemplateStrict(template_content, variables) ==
  IF Contains(template_content, <<"{", "{">>) /\ variables = <<>>
    THEN Raise("KeyError", template_content)
  ELSE IF variables = <<>> THEN Return(template_content)
  ELSE RenderTemplateStrict(
         PyReplace(template_content,
                   <<"{", "{">> \o variables[1].key \o <<"}", "}">>,
                   ValueText(variables[1].value)),
         Tail(variables))

\* render_template, lines 200-211: the loop over variables.items()
RECURSIVE RenderTemplate(_, _)
RenderTemplate(template_content, variables) ==
  IF variables = <<>> THEN Return(template_content)
  ELSE RenderTemplate(
         PyReplace(template_content,
                   <<"{", "{">> \o variables[1].key \o <<"}", "}">>,
                   ValueText(variables[1].value)),
         Tail(variables))

-----------------------------------------------------------------------------
(* shared/config.py: load_niche_config, and the niche configuration files  *)

JStr(s) == [t |-> "str", s |-> s]

Niches == {"outdoor-adventure", "tech"}

ApiUrl == "http://gcs:8000"

CfgFull ==
  [ json |-> "object",
    site_config |->
      [ t |-> "object", niche |-> JStr("outdoor-adventure"),
        primary_categories |-> JList(<<"camping", "hiking">>) ],
    content_strategy |->
      [ t |-> "object", hero_headlines |-> JList(<<"Explore More">>),
        value_propositions |-> JList(<<"Trusted gear">>),
        primary_ctas |-> JList(<<"Shop Gear">>) ],
    design_config |->
      [ t |-> "object",
        color_scheme |-> [ t |-> "object", primary |-> JStr("#112233"),
                           secondary |-> Absent, accent |-> Absent,
                           background |-> Absent ] ],
    seo_optimization |->
      [ t |-> "object", meta_description |-> JStr("Gear for the outdoors") ] ]

\* the JSON object {}
CfgEmptyObject ==
  [ json |-> "object", site_config |-> Absent, content_strategy |-> Absent,
    design_config |-> Absent, seo_optimization |-> Absent ]

\* "hero_headlines": []
CfgNoHeadlines ==
  [ CfgFull EXCEPT !.content_strategy.hero_headlines = JList(<<>>) ]

\* site_config without primary_categories
CfgNoCategories ==
  [ CfgFull EXCEPT !.site_config.primary_categories = Absent ]

\* a file holding a JSON array, and a file that is no JSON
CfgArray == [json |-> "array"]

CfgInvalid == [json |-> "invalid"]

NoConfig == [json |-> "none"]

ConfigContents ==
  {CfgFull, CfgEmptyObject, CfgNoHeadlines, CfgNoCategories, CfgArray,
   CfgInvalid}

NoFile == [exists |-> FALSE, content |-> NoConfig]

ConfigFile(c) == [exists |-> TRUE, content |-> c]

\* the config directory: a file per niche, or none
ConfigStores ==
  { [n \in Niches |-> IF n = "outdoor-adventure" THEN ConfigFile(c) ELSE NoFile] :
      c \in ConfigContents }

LoadNicheConfigDefaulting(store, niche) ==
  IF ~store[niche].exists THEN Return(CfgEmptyObject)
  ELSE IF store[niche].content.json = "invalid"
    THEN Raise("JSONDecodeError", NoConfig)
  ELSE Return(store[niche].content)

\* lines 102-111; the message ends with the path of the file, left out here
LoadNicheConfig(store, niche) ==
  IF ~store[niche].exists
    THEN RaiseMsg("FileNotFoundError", "Configuration file not found", NoConfig)
  ELSE IF store[niche].content.json = "invalid"
    THEN Raise("JSONDecodeError", NoConfig)
  ELSE Return(store[niche].content)

-----------------------------------------------------------------------------
(* generator_agent.py: _fetch_product_data *)

EmptyData == [json |-> "object", count |-> JInt(0), products |-> JList(<<>>)]

\* the try block, lines 126-133; line 129 calls data.get inside it
FetchTry(r) ==
  IF ReadError(r) # "" THEN Raise(ReadError(r), EmptyData)
  ELSE IF r.code = 200 THEN Return(r.body)
  ELSE Return(EmptyData)

\* the except clause, lines 135-137
FetchExcept(o) ==
  IF o.raised /\ CatchesException(o.exc) THEN Return(EmptyData) ELSE o

FetchProductData(r) == FetchExcept(FetchTry(r))

\* list[:n]
Take(l, n) == SubSeq(l, 1, IF Len(l) < n THEN Len(l) ELSE n)

SampleSize == 6

FallbackSize == 3

-----------------------------------------------------------------------------
(* generator_agent.py: _generate_website_files and the templates *)

NoVars ==
  [ brand_name |-> <<>>, brand_slug |-> <<>>, api_url |-> "",
    niche_config |-> NoConfig, sample_products |-> <<>>,
    total_products |-> JInt(0), generated_at |-> 0,
    color_scheme |-> Absent, content_strategy |-> Absent ]

EmptyDesign == [t |-> "object", color_scheme |-> Absent]

EmptyColors ==
  [ t |-> "object", primary |-> Absent, secondary |-> Absent,
    accent |-> Absent, background |-> Absent ]

EmptyStrategy ==
  [ t |-> "object", hero_headlines |-> Absent, value_propositions |-> Absent,
    primary_ctas |-> Absent ]

EmptySiteConfig == [t |-> "object", niche |-> Absent, primary_categories |-> Absent]

EmptySeo == [t |-> "object", meta_description |-> Absent]

\* template_vars, lines 153-163
TemplateVars(brand_name, niche_config, product_data, api_url, now) ==
  IF product_data.json # "object" THEN Raise("AttributeError", NoVars)
  ELSE IF GetOr(product_data.products, JList(<<>>)).t # "list"
    THEN Raise("TypeError", NoVars)
  ELSE IF niche_config.json # "object" THEN Raise("AttributeError", NoVars)
  ELSE Return(
    [ brand_name |-> brand_name,
      brand_slug |-> FormatBrandSlug(brand_name),
      api_url |-> api_url,
      niche_config |-> niche_config,
      sample_products |->
        Take(GetOr(product_data.products, JList(<<>>)).v, SampleSize),
      total_products |-> GetOr(product_data.count, JInt(0)),
      generated_at |-> now,
      color_scheme |->
        GetOr(GetOr(niche_config.design_config, EmptyDesign).color_scheme,
              EmptyColors),
      content_strategy |-> GetOr(niche_config.content_strategy, EmptyStrategy) ])

\* content_strategy.get(key, [default])[0]
FirstOr(field, default) ==
  IF field.t = "absent" THEN Return(default)
  ELSE IF Len(field.v) = 0 THEN Raise("IndexError", "")
  ELSE Return(field.v[1])

\* color_scheme.get(slot, default)
Color(field, default) == IF field.t = "absent" THEN default ELSE field.s

\* the catalog without postcss.config.js, .env.example and vercel.json
CatalogOfFourteen ==
  << "package.json",
     "pages/index.js", "pages/api/products.js", "pages/category/[slug].js",
     "components/Navigation.js", "components/Hero.js",
     "components/ProductGrid.js", "components/ProductCard.js",
     "components/Footer.js",
     "styles/globals.css", "tailwind.config.js", "next.config.js",
     "README.md", "DEPLOYMENT.md" >>

\* the files _generate_website_files writes, in the order it writes them
Catalog ==
  << "package.json",
     "pages/index.js", "pages/api/products.js", "pages/category/[slug].js",
     "components/Navigation.js", "components/Hero.js",
     "components/ProductGrid.js", "components/ProductCard.js",
     "components/Footer.js",
     "styles/globals.css", "tailwind.config.js", "postcss.config.js",
     "next.config.js", ".env.example", "vercel.json",
     "README.md", "DEPLOYMENT.md" >>

\* the text one template yields: the template and the values put into it
Text(template, values) == [template |-> template, values |-> values]

\* _create_index_page, lines 262-341
CreateIndexPage(tv) ==
  LET cs   == tv.content_strategy
      h    == FirstOr(cs.hero_headlines, "Quality Outdoor Gear")
      h2   == FirstOr(cs.hero_headlines, "Gear Up for Adventure")
      sub  == FirstOr(cs.value_propositions, "Quality gear at great prices")
      cta  == FirstOr(cs.primary_ctas, "Shop Now")
      seo  == GetOr(tv.niche_config.seo_optimization, EmptySeo)
      meta == GetOr(seo.meta_description, JStr(""))
  IN  IF h.raised \/ sub.raised \/ cta.raised
      THEN Raise("IndexError", Text("", <<>>))
      ELSE Return(Text("pages/index.js",
             << tv.brand_name, h.value, meta.s, h2.value, sub.value, cta.value >>))

\* _create_api_route, lines 343-392
CreateApiRoute(tv) ==
  Return(Text("pages/api/products.js",
    << tv.api_url, Len(tv.sample_products),
       Take(tv.sample_products, FallbackSize) >>))

\* _create_navigation_component, lines 513-588
CreateNavigation(tv) ==
  LET sc == GetOr(tv.niche_config.site_config, EmptySiteConfig)
  IN  Return(Text("components/Navigation.js",
        << GetOr(sc.primary_categories, JList(<<>>)).v >>))

\* _create_global_css, lines 820-895
CreateGlobalCss(tv) ==
  LET c == tv.color_scheme
  IN  Return(Text("styles/globals.css",
        << Color(c.primary, "#2D5016"), Color(c.secondary, "#8FBC8F"),
           Color(c.accent, "#F4A460"), Color(c.background, "#F5F5DC") >>))

\* template_vars["niche_config"]["site_config"][key]
SiteConfigKey(tv, key) ==
  IF tv.niche_config.site_config.t = "absent" THEN Raise("KeyError", Absent)
  ELSE IF tv.niche_config.site_config[key].t = "absent"
    THEN Raise("KeyError", Absent)
  ELSE Return(tv.niche_config.site_config[key])

\* _create_next_config, lines 984-1033
CreateNextConfig(tv) ==
  LET n == SiteConfigKey(tv, "niche")
  IN  IF n.raised THEN Raise(n.exc, Text("", <<>>))
      ELSE Return(Text("next.config.js", << tv.brand_name, n.value.s >>))

\* _create_env_example, lines 1035-1051
CreateEnvExample(tv) ==
  LET n == SiteConfigKey(tv, "niche")
  IN  IF n.raised THEN Raise(n.exc, Text("", <<>>))
      ELSE Return(Text(".env.example",
             << tv.api_url, tv.brand_name, n.value.s >>))

\* _create_readme, lines 1108-1227
CreateReadme(tv) ==
  LET cats == SiteConfigKey(tv, "primary_categories")
      c    == tv.color_scheme
  IN  IF cats.raised THEN Raise(cats.exc, Text("", <<>>))
      ELSE Return(Text("README.md",
             << tv.brand_name, tv.api_url, tv.total_products, cats.value.v,
                tv.generated_at, tv.brand_slug,
                Color(c.primary, "#2D5016"), Color(c.secondary, "#8FBC8F"),
                Color(c.accent, "#F4A460") >>))

GeneratePackageJsonFixedName(tv) ==
  Return(Text("package.json",
    << FormatBrandSlug(AdventureGearPro), tv.brand_name >>))

\* _generate_package_json, lines 200-235: "name" and "description"
GeneratePackageJson(tv) ==
  Return(Text("package.json", << tv.brand_slug, tv.brand_name >>))

\* the text written to one path of the catalog, or the exception its
\* template raises
Render(path, tv) ==
  CASE path = "package.json" -> GeneratePackageJson(tv)
    [] path = "pages/index.js" -> CreateIndexPage(tv)
    [] path = "pages/api/products.js" -> CreateApiRoute(tv)
    [] path = "pages/category/[slug].js" -> Return(Text(path, << tv.brand_name >>))
    [] path = "components/Navigation.js" -> CreateNavigation(tv)
    [] path = "components/Footer.js" -> Return(Text(path, << tv.brand_name >>))
    [] path = "styles/globals.css" -> CreateGlobalCss(tv)
    [] path = "next.config.js" -> CreateNextConfig(tv)
    [] path = ".env.example" -> CreateEnvExample(tv)
    [] path = "README.md" -> CreateReadme(tv)
    [] path = "DEPLOYMENT.md" -> Return(Text(path, << tv.brand_name, tv.api_url >>))
    [] OTHER -> Return(Text(path, <<>>))

-----------------------------------------------------------------------------
(* The generated directory.  A file is [exists, data]; data is the         *)
(* sequence of texts written to it since it was created or truncated.      *)

\* a path of a Next.js project that is in no template of the generator
FaviconPath == "public/favicon.ico"

Paths == {Catalog[i] : i \in 1..Len(Catalog)} \cup {FaviconPath}

Missing == [exists |-> FALSE, data |-> <<>>]

EmptyProject == [p \in Paths |-> Missing]

SaveFileAppend(old, content) ==
  [exists |-> TRUE, data |-> old.data \o <<content>>]

\* shared/utils.py: save_file, open(file_path, 'w') then write: the file
\* after the call, given the file before it
SaveFile(old, content) == [exists |-> TRUE, data |-> <<content>>]

\* what each template of the catalog yields for template_vars tv
Rendered(tv) == [i \in 1..Len(Catalog) |-> Render(Catalog[i], tv)]

\* position of a path in the catalog
CatalogIndex(path) == CHOOSE i \in 1..Len(Catalog) : Catalog[i] = path

(* The body of _generate_website_files: template by template, in catalog   *)
(* order, render, save, record the path, until a template raises or the    *)
(* disk refuses a write.  failAt is the file whose write the disk refuses  *)
(* (0: none).  stop is the first file that is not saved.                   *)
WriteAll(files, rendered, failAt) ==
  LET stops == {i \in 1..Len(Catalog) : rendered[i].raised \/ failAt = i}
      stop  == IF stops = {} THEN Len(Catalog) + 1
               ELSE CHOOSE i \in stops : \A j \in stops : i <= j
  IN  [ exc   |-> IF stop > Len(Catalog) THEN ""
                  ELSE IF rendered[stop].raised THEN rendered[stop].exc
                  ELSE "OSError",
        files |-> [p \in Paths |->
                     IF \E i \in 1..(stop - 1) : Catalog[i] = p
                     THEN SaveFile(files[p], rendered[CatalogIndex(p)].value)
                     ELSE files[p]],
        saved |-> SubSeq(Catalog, 1, stop - 1) ]

-----------------------------------------------------------------------------
(* generator_agent.py: generate_affiliate_site, its result *)

SuccessResult(slug, saved, product_data) ==
  [ success |-> TRUE, error |-> "", project_path |-> slug,
    generated_files |-> saved,
    product_count |-> Len(GetOr(product_data.products, JList(<<>>)).v) ]

FailureResult(message) ==
  [ success |-> FALSE, error |-> message, project_path |-> <<>>,
    generated_files |-> <<>>, product_count |-> 0 ]

GenerateExceptLookupOnly(o) ==
  IF o.raised /\ o.exc \in {"Exception", "FileNotFoundError"}
  THEN Return(FailureResult(o.msg))
  ELSE o

\* the except clause, lines 115-120
GenerateExcept(o) ==
  IF o.raised /\ CatchesException(o.exc)
  THEN Return(FailureResult(o.msg))
  ELSE o

ValidationPassesIfHealthy(v) == v.value.msg # "not healthy"

\* line 76: if not validate_existing_server(scraper_api_url)
ValidationPasses(v) == v.value.ok

-----------------------------------------------------------------------------
(* State *)

\* calls of generate_affiliate_site in one behaviour
MaxRuns == 2

\* values datetime.now() may take
MaxTime == 2

Times == 1..MaxTime

\* the last file of the catalog whose write the disk may refuse
MaxFailAt == 2

\* the file whose write the disk refuses, 0 for none
DiskFailures == 0..MaxFailAt

VARIABLES
  srvHealth,     \* how the server answers GET /health
  srvProducts,   \* how the server answers GET /products
  srvSites,      \* how the server answers GET /sites
  statusOut,     \* outcome of the last get_server_status call
  validOut,      \* outcome of the last validate_existing_server call
  configStore,   \* the config directory: niche -> file
  fs,            \* ./generated: slug -> path -> file
  dirs,          \* the slugs whose directory skeleton exists
  runs,          \* calls of generate_affiliate_site so far
  gPc,           \* where generate_affiliate_site stands
  gBrand,        \* its argument brand_name
  gNiche,        \* its argument niche
  gValid,        \* what validate_existing_server answered it
  gConfig,       \* niche_config
  gData,         \* product_data
  gSaved,        \* the paths save_file logged during the call
  genOut,        \* outcome of the last generate_affiliate_site call
  lastGen,       \* history: per slug, the last successful generation
  dPc,           \* where deploy_complete_system stands
  dBrand,        \* request.brand_name
  dNiche,        \* request.niche
  dScraper,      \* scraper_result
  dCount,        \* products_count
  dExtra,        \* trigger_additional_scraping was called in this run
  dVercel,       \* vercel_result["vercel_url"]
  dValidation,   \* validation_result
  records,       \* ./deployed: record slug -> file
  deployOut,     \* outcome of the last deploy_complete_system call
  brandIn,       \* the argument of a direct call of format_brand_name
  slugOut,       \* the slugs such calls returned, in order
  tplIn,         \* template_content of a direct call of render_template
  ctxIn,         \* variables of that call: its items, in the dict's order
  renderOut,     \* outcome of that call
  qPc,           \* quick_deploy.py main: where the script is
  qUrl,          \* the line the user types at the prompt
  qSite,         \* ./adventure-gear-pro-site: "none", "partial" or "full"
  qRepo,         \* whether ./adventure-gear-pro-site/.git exists
  qSteps,        \* the steps main has started, in order
  qCmds,         \* the git commands run and their exit codes, in order
  qPrinted,      \* what the script has printed, in order
  qExit,         \* the exit code of the process, -1 while it runs
  pRoute,        \* pages/api/products.js as deployed: the file the generator wrote
  pMethod,       \* the method of a request to /api/products
  pRes,          \* the response the route gave, status 0 before it answers
  mEnv,          \* main.py: the environment, each variable unset, empty or set
  mPc,           \* main.py main: where the process is
  mOut           \* main.py main: how the process ended

statusVars == <<srvHealth, srvProducts, srvSites, statusOut, validOut>>

genVars ==
  <<configStore, fs, dirs, runs, gPc, gBrand, gNiche, gValid, gConfig, gData,
    gSaved, genOut, lastGen>>

deployVars ==
  <<dPc, dBrand, dNiche, dScraper, dCount, dExtra, dVercel, dValidation,
    records, deployOut>>

\* the state of the functions and scripts called on their own
toolVars ==
  <<brandIn, slugOut, tplIn, ctxIn, renderOut,
    qPc, qUrl, qSite, qRepo, qSteps, qCmds, qPrinted, qExit,
    pRoute, pMethod, pRes, mEnv, mPc, mOut>>

vars == <<statusVars, genVars, deployVars, toolVars>>

NotCalled ==
  [called |-> FALSE, raised |-> FALSE, exc |-> "", msg |-> "", value |-> FALSE]

Called(o) ==
  [ called |-> TRUE, raised |-> o.raised, exc |-> o.exc, msg |-> o.msg,
    value |-> o.value ]

NeverGenerated == [times |-> 0, vars |-> NoVars, files |-> EmptyProject]

\* nothing generated yet, no call in progress
GenIdle ==
  /\ fs = [s \in Slugs |-> EmptyProject]
  /\ dirs = {}
  /\ runs = 0
  /\ gPc = "idle"
  /\ gBrand = <<>>
  /\ gNiche = ""
  /\ gValid = NotCalled
  /\ gConfig = NoConfig
  /\ gData = EmptyData
  /\ gSaved = <<>>
  /\ genOut = NotCalled
  /\ lastGen = [s \in Slugs |-> NeverGenerated]

NoRecord == [exists |-> FALSE, data |-> <<>>]

NoScraper == [success |-> FALSE, api_url |-> Absent, deployment_time |-> Absent]

NoValidation ==
  [ scraper_api_healthy |-> FALSE, website_loads |-> FALSE,
    api_integration_working |-> FALSE ]

\* what deploy_complete_system holds when it is entered
DeployEntered ==
  /\ dScraper' = NoScraper
  /\ dCount' = JInt(0)
  /\ dExtra' = FALSE
  /\ dVercel' = <<>>
  /\ dValidation' = NoValidation
  /\ deployOut' = NotCalled

\* no deployment yet, no call in progress
DeployIdle ==
  /\ dPc = "idle"
  /\ dBrand = <<>>
  /\ dNiche = ""
  /\ dScraper = NoScraper
  /\ dCount = JInt(0)
  /\ dExtra = FALSE
  /\ dVercel = <<>>
  /\ dValidation = NoValidation
  /\ records = [s \in RecordSlugs |-> NoRecord]
  /\ deployOut = NotCalled

\* main.py has not ended
NotEnded == [exit |-> -1, result |-> "", traceback |-> ""]

\* the route has not answered
NoResponse ==
  [ status |-> 0, source |-> "", count |-> Absent, products |-> Absent,
    error |-> "", fetched_at |-> 0 ]

\* no function or script called on its own
ToolsIdle ==
  /\ brandIn = <<>>
  /\ slugOut = <<>>
  /\ tplIn = <<>>
  /\ ctxIn = <<>>
  /\ renderOut = NotCalled
  /\ qPc = "idle"
  /\ qUrl = <<>>
  /\ qSite = "none"
  /\ qRepo = FALSE
  /\ qSteps = <<>>
  /\ qCmds = <<>>
  /\ qPrinted = <<>>
  /\ qExit = -1
  /\ pRoute = <<>>
  /\ pMethod = ""
  /\ pRes = NoResponse
  /\ mEnv = <<>>
  /\ mPc = "idle"
  /\ mOut = NotEnded

StatusIdle ==
  /\ srvHealth = [net |-> "ok", code |-> 200, body |-> NoBody]
  /\ srvProducts = [net |-> "ok", code |-> 500, body |-> NoBody]
  /\ srvSites = [net |-> "ok", code |-> 404, body |-> NoBody]
  /\ statusOut = NotCalled
  /\ validOut = NotCalled

-----------------------------------------------------------------------------
(* The status checker called on its own *)

InitStatus ==
  /\ srvHealth \in HealthResponses
  /\ srvProducts \in ProductsResponses
  /\ srvSites \in SitesResponses
  /\ statusOut = NotCalled
  /\ validOut = NotCalled
  /\ configStore \in ConfigStores
  /\ GenIdle
  /\ DeployIdle
  /\ ToolsIdle

\* a caller runs get_server_status(gcs_url)
CallGetServerStatus ==
  /\ ~statusOut.called
  /\ statusOut' = Called(GetServerStatus(srvHealth, srvProducts, srvSites))
  /\ UNCHANGED <<srvHealth, srvProducts, srvSites, validOut, genVars, deployVars, toolVars>>

\* a caller runs validate_existing_server(gcs_url)
CallValidateExistingServer ==
  /\ ~validOut.called
  /\ validOut' = Called(ValidateExistingServer(srvHealth, srvProducts, srvSites))
  /\ UNCHANGED <<srvHealth, srvProducts, srvSites, statusOut, genVars, deployVars, toolVars>>

NextStatus == CallGetServerStatus \/ CallValidateExistingServer

SpecStatus == InitStatus /\ [][NextStatus]_vars

-----------------------------------------------------------------------------
(* generate_affiliate_site, statement by statement *)

\* the /products answers the generator's fetch meets
FetchResponses ==
  { [net |-> "fail", code |-> 0, body |-> NoBody],
    [net |-> "timeout", code |-> 0, body |-> NoBody],
    [net |-> "ok", code |-> 500, body |-> NoBody],
    [net |-> "ok", code |-> 200, body |-> [json |-> "invalid"]],
    [net |-> "ok", code |-> 200, body |-> [json |-> "array"]],
    [net |-> "ok", code |-> 200,
     body |-> [json |-> "object", count |-> JInt(0), products |-> JList(<<>>)]],
    [net |-> "ok", code |-> 200,
     body |-> [json |-> "object", count |-> JInt(0), products |-> Absent]],
    [net |-> "ok", code |-> 200,
     body |-> [json |-> "object", count |-> JInt(5),
               products |-> JList(<<1, 2, 3, 4, 5, 6, 7>>)]],
    [net |-> "ok", code |-> 200,
     body |-> [json |-> "object", count |-> JInt(0), products |-> JNull]] }

\* what validate_existing_server can answer, over all answers of the server
ValidationOutcomes ==
  { ValidateExistingServer(h, p, s) :
      h \in HealthResponses, p \in ProductsResponses, s \in SitesResponses }

Init ==
  /\ StatusIdle
  /\ configStore \in ConfigStores
  /\ GenIdle
  /\ DeployIdle
  /\ ToolsIdle

\* the call ends: what was raised inside the try block meets the except clause
GenEnd(o) ==
  /\ genOut' = Called(GenerateExcept(o))
  /\ gPc' = "done"

\* generate_affiliate_site(brand_name, niche, ...) is entered, lines 62-74
GenCall(b, n) ==
  /\ gPc \in {"idle", "done"}
  /\ runs < MaxRuns
  /\ runs' = runs + 1
  /\ gPc' = "validate"
  /\ gBrand' = b
  /\ gNiche' = n
  /\ gValid' = NotCalled
  /\ gConfig' = NoConfig
  /\ gData' = EmptyData
  /\ gSaved' = <<>>
  /\ genOut' = NotCalled
  /\ UNCHANGED <<toolVars, statusVars, configStore, fs, dirs, lastGen>>

\* a caller runs generate_affiliate_site(brand_name, niche, ...)
StartGenerate(b, n) == GenCall(b, n) /\ UNCHANGED deployVars

\* lines 75-77
GenValidate ==
  /\ gPc = "validate"
  /\ \E v \in ValidationOutcomes :
       /\ gValid' = Called(v)
       /\ IF v.raised THEN GenEnd(v)
          ELSE IF ~ValidationPasses(v)
            THEN GenEnd(RaiseMsg("Exception", "GCS server validation failed",
                                 FailureResult("")))
          ELSE gPc' = "load" /\ UNCHANGED genOut
  /\ UNCHANGED <<toolVars, statusVars, deployVars, configStore, fs, dirs, runs, gBrand, gNiche,
                 gConfig, gData, gSaved, lastGen>>

\* lines 79-80
GenLoadConfig ==
  /\ gPc = "load"
  /\ LET l == LoadNicheConfig(configStore, gNiche)
     IN  IF l.raised
         THEN GenEnd(l) /\ UNCHANGED gConfig
         ELSE gConfig' = l.value /\ gPc' = "mkdir" /\ UNCHANGED genOut
  /\ UNCHANGED <<toolVars, statusVars, deployVars, configStore, fs, dirs, runs, gBrand, gNiche,
                 gValid, gData, gSaved, lastGen>>

\* lines 82-84: create_project_structure, which the disk may refuse
GenCreateStructure ==
  /\ gPc = "mkdir"
  /\ \E ok \in BOOLEAN :
       IF ok
       THEN /\ dirs' = dirs \cup {FormatBrandSlug(gBrand)}
            /\ gPc' = "fetch"
            /\ UNCHANGED genOut
       ELSE /\ GenEnd(Raise("OSError", FailureResult("")))
            /\ UNCHANGED dirs
  /\ UNCHANGED <<toolVars, statusVars, deployVars, configStore, fs, runs, gBrand, gNiche, gValid,
                 gConfig, gData, gSaved, lastGen>>

\* lines 86-87
GenFetch ==
  /\ gPc = "fetch"
  /\ \E r \in FetchResponses :
       LET d == FetchProductData(r)
       IN  IF d.raised
           THEN GenEnd(d) /\ UNCHANGED gData
           ELSE gData' = d.value /\ gPc' = "write" /\ UNCHANGED genOut
  /\ UNCHANGED <<toolVars, statusVars, deployVars, configStore, fs, dirs, runs, gBrand, gNiche,
                 gValid, gConfig, gSaved, lastGen>>

\* history: the generation that just succeeded with template_vars tv
Remember(last, tv, files) ==
  IF last.times > 0 /\ last.vars = tv
  THEN [last EXCEPT !.times = IF @ < MaxRuns THEN @ + 1 ELSE @]
  ELSE [times |-> 1, vars |-> tv, files |-> files]

\* lines 89-113: _generate_website_files and the return
GenWriteFiles ==
  /\ gPc = "write"
  /\ \E now \in Times :
       \E tv \in {TemplateVars(gBrand, gConfig, gData, ApiUrl, now)} :
         IF tv.raised
         THEN GenEnd(tv) /\ UNCHANGED <<fs, gSaved, lastGen>>
         ELSE \E failAt \in DiskFailures, rd \in {Rendered(tv.value)},
                 slug \in {FormatBrandSlug(gBrand)} :
                \E w \in {WriteAll(fs[slug], rd, failAt)} :
                  /\ fs' = [fs EXCEPT ![slug] = w.files]
                  /\ gSaved' = w.saved
                  /\ IF w.exc # ""
                     THEN /\ GenEnd(Raise(w.exc, FailureResult("")))
                          /\ UNCHANGED lastGen
                     ELSE /\ GenEnd(Return(SuccessResult(slug, w.saved, gData)))
                          /\ lastGen' =
                               [lastGen EXCEPT
                                  ![slug] = Remember(@, tv.value, w.files)]
  /\ UNCHANGED <<toolVars, statusVars, deployVars, configStore, dirs, runs, gBrand,
                 gNiche, gValid, gConfig, gData>>

Next ==
  \/ \E b \in Brands, n \in Niches : StartGenerate(b, n)
  \/ GenValidate
  \/ GenLoadConfig
  \/ GenCreateStructure
  \/ GenFetch
  \/ GenWriteFiles

Spec == Init /\ [][Next]_vars

-----------------------------------------------------------------------------
(* main.py: deploy_complete_system, phase by phase *)

\* what deploy_scraper_system answers.  The scraper agent is an external
\* collaborator: it may report success with or without an api_url, report
\* failure, or raise.
ScraperResults ==
  { Return([success |-> TRUE, api_url |-> JStr(ApiUrl),
            deployment_time |-> JInt(1)]),
    Return([success |-> TRUE, api_url |-> Absent, deployment_time |-> Absent]),
    Return(NoScraper),
    Raise("ConnectionError", NoScraper) }

\* line 83: if products_count < 5
ScrapeThreshold == 5

\* the /products answers _validate_scraper_data meets
DataResponses ==
  { [net |-> "fail", code |-> 0, body |-> NoBody],
    [net |-> "ok", code |-> 500, body |-> NoBody],
    [net |-> "ok", code |-> 200, body |-> [json |-> "array"]] } \cup
  { [net |-> "ok", code |-> 200,
     body |-> [json |-> "object", count |-> c, products |-> Absent]] :
      c \in {JNull, JInt(ScrapeThreshold - 1), JInt(ScrapeThreshold)} }

\* _validate_scraper_data, lines 146-161
ValidateScraperData(r) ==
  IF ReadError(r) # "" THEN JInt(0)
  ELSE IF r.code = 200 THEN GetOr(r.body.count, JInt(0))
  ELSE JInt(0)

\* generator_agent.py: deploy_to_vercel, the vercel_url it returns
VercelUrl ==
  Text("https://{slug}.vercel.app", <<FormatBrandSlug(AdventureGearPro)>>)

\* _validate_complete_system, lines 163-201: each probe is True or False
ValidationResults ==
  [ scraper_api_healthy : BOOLEAN, website_loads : BOOLEAN,
    api_integration_working : BOOLEAN ]

\* deployment_summary, lines 115-130
DeploymentSummary(brand_name, niche, scraper, vercel_url, count, validation) ==
  [ success |-> TRUE, error |-> "",
    brand_name |-> brand_name,
    niche |-> niche,
    scraper_api_url |-> scraper.api_url.s,
    website_url |-> vercel_url,
    products_count |-> count,
    validation |-> validation,
    deployment_time |-> GetOr(scraper.deployment_time, JInt(0)).n + 0,
    next_steps |->
      << Text("Visit your live site: {url}", <<vercel_url>>),
         Text("Monitor API health: {api}/health", <<scraper.api_url.s>>),
         Text("Products will auto-update every 6 hours", <<>>),
         Text("Check deployment logs in ./logs/ directory", <<>>) >> ]

DeploymentRecordUnversioned(summary, now) ==
  [summary |-> summary, deployed_at |-> now, system_version |-> ""]

\* _save_deployment_record, lines 214-218: the record written
DeploymentRecord(summary, now) ==
  [summary |-> summary, deployed_at |-> now, system_version |-> "1.0.0"]

DeployFailure(message) ==
  [success |-> FALSE, error |-> message, partial_results |-> <<>>]

\* the except clause, lines 138-144
DeployExcept(o) ==
  IF o.raised /\ CatchesException(o.exc)
  THEN Return(DeployFailure(o.msg))
  ELSE o

\* the call ends: what was raised inside the try block meets the except clause
DeployEnd(o) ==
  /\ deployOut' = Called(DeployExcept(o))
  /\ dPc' = "done"

\* a process of main.py starts: ./deployed holds, for each brand, no record
\* or the record an earlier process left there
InitDeploy ==
  /\ StatusIdle
  /\ configStore \in ConfigStores
  /\ GenIdle
  /\ ToolsIdle
  /\ dPc = "idle"
  /\ dBrand = <<>>
  /\ dNiche = ""
  /\ dScraper = NoScraper
  /\ dCount = JInt(0)
  /\ dExtra = FALSE
  /\ dVercel = <<>>
  /\ dValidation = NoValidation
  /\ records \in
       { [ s \in RecordSlugs |->
             IF s \in had
             THEN SaveFile(NoRecord,
                    DeploymentRecord(
                      DeploymentSummary(CHOOSE b \in Brands : RecordSlug(b) = s,
                        "outdoor-adventure",
                        [ success |-> TRUE, api_url |-> JStr(ApiUrl),
                          deployment_time |-> JInt(1) ],
                        VercelUrl, JInt(5),
                        [ scraper_api_healthy |-> TRUE, website_loads |-> TRUE,
                          api_integration_working |-> TRUE ]),
                      0))
             ELSE NoRecord ] : had \in SUBSET RecordSlugs }
  /\ deployOut = NotCalled

\* main.py, main(), lines 226-271: the process runs deploy_complete_system
\* once, with the request of its command line
StartDeploy(b, n) ==
  /\ dPc = "idle"
  /\ gPc = "idle"
  /\ dPc' = "scraper"
  /\ dBrand' = b
  /\ dNiche' = n
  /\ DeployEntered
  /\ UNCHANGED <<toolVars, statusVars, genVars, records>>

\* phase 1 and line 80, lines 68-80; the text of the scraper's error is left out of the
\* message
DeployScraper ==
  /\ dPc = "scraper"
  /\ \E s \in ScraperResults :
       IF s.raised THEN DeployEnd(s) /\ UNCHANGED dScraper
       ELSE IF ~s.value.success
         THEN /\ DeployEnd(RaiseMsg("Exception", "Scraper deployment failed",
                                    NoScraper))
              /\ UNCHANGED dScraper
       ELSE IF s.value.api_url.t = "absent"
         THEN DeployEnd(Raise("KeyError", NoScraper)) /\ dScraper' = s.value
       ELSE dScraper' = s.value /\ dPc' = "data" /\ UNCHANGED deployOut
  /\ UNCHANGED <<toolVars, statusVars, genVars, dBrand, dNiche, dCount, dExtra, dVercel,
                 dValidation, records>>
\* as DeployValidateData, but comparing with <= where the code has <
DeployValidateDataUpToThreshold ==
  /\ dPc = "data"
  /\ \E r \in DataResponses :
       LET c == ValidateScraperData(r)
       IN  /\ dCount' = c
           /\ IF c.t # "int"
              THEN DeployEnd(Raise("TypeError", NoScraper)) /\ UNCHANGED dExtra
              ELSE IF c.n <= ScrapeThreshold
                THEN /\ dExtra' = TRUE
                     /\ \E ok \in BOOLEAN :
                          IF ok THEN dPc' = "generate" /\ UNCHANGED deployOut
                          ELSE DeployEnd(Raise("ConnectionError", NoScraper))
              ELSE dPc' = "generate" /\ UNCHANGED <<dExtra, deployOut>>
  /\ UNCHANGED <<toolVars, statusVars, genVars, dBrand, dNiche, dScraper, dVercel,
                 dValidation, records>>

\* phase 2, lines 81-85; trigger_additional_scraping is the scraper agent's,
\* it returns or raises
DeployValidateData ==
  /\ dPc = "data"
  /\ \E r \in DataResponses :
       LET c == ValidateScraperData(r)
       IN  /\ dCount' = c
           /\ IF c.t # "int"
              THEN DeployEnd(Raise("TypeError", NoScraper)) /\ UNCHANGED dExtra
              ELSE IF c.n < ScrapeThreshold
                THEN /\ dExtra' = TRUE
                     /\ \E ok \in BOOLEAN :
                          IF ok THEN dPc' = "generate" /\ UNCHANGED deployOut
                          ELSE DeployEnd(Raise("ConnectionError", NoScraper))
              ELSE dPc' = "generate" /\ UNCHANGED <<dExtra, deployOut>>
  /\ UNCHANGED <<toolVars, statusVars, genVars, dBrand, dNiche, dScraper, dVercel,
                 dValidation, records>>

\* phase 3, lines 87-94: the call of generate_affiliate_site
DeployGenerate ==
  /\ dPc = "generate"
  /\ GenCall(dBrand, dNiche)
  /\ dPc' = "generating"
  /\ UNCHANGED <<dBrand, dNiche, dScraper, dCount, dExtra, dVercel,
                 dValidation, records, deployOut>>

DeployCheckSiteUnchecked ==
  /\ dPc = "generating"
  /\ gPc = "done"
  /\ dPc' = "vercel"
  /\ UNCHANGED deployOut
  /\ UNCHANGED <<toolVars, statusVars, genVars, dBrand, dNiche, dScraper, dCount, dExtra,
                 dVercel, dValidation, records>>

\* lines 96-97, once generate_affiliate_site has ended; the text of its
\* error is left out of the message
DeployCheckSite ==
  /\ dPc = "generating"
  /\ gPc = "done"
  /\ IF genOut.raised THEN DeployEnd(genOut)
     ELSE IF ~genOut.value.success
       THEN DeployEnd(RaiseMsg("Exception", "Site generation failed",
                               NoScraper))
     ELSE dPc' = "vercel" /\ UNCHANGED deployOut
  /\ UNCHANGED <<toolVars, statusVars, genVars, dBrand, dNiche, dScraper, dCount, dExtra,
                 dVercel, dValidation, records>>

\* phase 4, lines 99-105
DeployToVercel ==
  /\ dPc = "vercel"
  /\ dVercel' = VercelUrl
  /\ dPc' = "final"
  /\ UNCHANGED <<toolVars, statusVars, genVars, dBrand, dNiche, dScraper, dCount, dExtra,
                 dValidation, records, deployOut>>

\* phase 5, lines 107-112
DeployFinalValidation ==
  /\ dPc = "final"
  /\ dValidation' \in ValidationResults
  /\ dPc' = "save"
  /\ UNCHANGED <<toolVars, statusVars, genVars, dBrand, dNiche, dScraper, dCount, dExtra,
                 dVercel, records, deployOut>>
\* as DeploySaveRecord, but a failed write is only logged and the summary is
\* returned all the same
DeploySaveRecordLogsFailure ==
  /\ dPc = "save"
  /\ LET summary == DeploymentSummary(dBrand, dNiche, dScraper, dVercel,
                                      dCount, dValidation)
     IN  \E ok \in BOOLEAN, now \in Times :
           /\ records' =
                IF ok
                THEN [records EXCEPT ![RecordSlug(dBrand)] =
                        SaveFile(@, DeploymentRecord(summary, now))]
                ELSE records
           /\ deployOut' = Called(Return(summary))
           /\ dPc' = "done"
  /\ UNCHANGED <<toolVars, statusVars, genVars, dBrand, dNiche, dScraper, dCount, dExtra,
                 dVercel, dValidation>>

\* lines 114-136: the summary, the record written to ./deployed (which the
\* disk may refuse), the return
DeploySaveRecord ==
  /\ dPc = "save"
  /\ LET summary == DeploymentSummary(dBrand, dNiche, dScraper, dVercel,
                                      dCount, dValidation)
     IN  \E ok \in BOOLEAN, now \in Times :
           IF ok
           THEN /\ records' =
                     [records EXCEPT ![RecordSlug(dBrand)] =
                        SaveFile(@, DeploymentRecord(summary, now))]
                /\ deployOut' = Called(Return(summary))
                /\ dPc' = "done"
           ELSE DeployEnd(Raise("OSError", NoScraper)) /\ UNCHANGED records
  /\ UNCHANGED <<toolVars, statusVars, genVars, dBrand, dNiche, dScraper, dCount, dExtra,
                 dVercel, dValidation>>

NextDeploy ==
  \/ \E b \in Brands, n \in Niches : StartDeploy(b, n)
  \/ DeployScraper
  \/ DeployValidateData
  \/ DeployGenerate
  \/ GenValidate
  \/ GenLoadConfig
  \/ GenCreateStructure
  \/ GenFetch
  \/ GenWriteFiles
  \/ DeployCheckSite
  \/ DeployToVercel
  \/ DeployFinalValidation
  \/ DeploySaveRecord

SpecDeploy == InitDeploy /\ [][NextDeploy]_vars

-----------------------------------------------------------------------------
(* shared/utils.py: format_brand_name called on its own *)

\* longest brand name passed
MaxBrandLen == 3

\* calls of format_brand_name in one behaviour
MaxSlugCalls == 2

\* the brand names passed: every text up to MaxBrandLen over upper and lower
\* case, digit, space, underscore, hyphen and punctuation
BrandNames ==
  UNION { [1..n -> {"A", "b", "7", " ", "_", "-", "!"}] : n \in 0..MaxBrandLen }

InitSlug ==
  /\ StatusIdle
  /\ configStore \in {cs \in ConfigStores : cs["outdoor-adventure"].content = CfgFull}
  /\ GenIdle
  /\ DeployIdle
  /\ brandIn \in BrandNames
  /\ slugOut = <<>>
  /\ tplIn = <<>> /\ ctxIn = <<>> /\ renderOut = NotCalled
  /\ qPc = "idle" /\ qUrl = <<>> /\ qSite = "none" /\ qRepo = FALSE
  /\ qSteps = <<>> /\ qCmds = <<>> /\ qPrinted = <<>> /\ qExit = -1
  /\ pRoute = <<>> /\ pMethod = "" /\ pRes = NoResponse
  /\ mEnv = <<>> /\ mPc = "idle" /\ mOut = NotEnded

\* format_brand_name(brand_name)["slug"], first on the brand name, then on
\* the slug it returned
CallFormatBrandName ==
  /\ Len(slugOut) < MaxSlugCalls
  /\ slugOut' =
       Append(slugOut,
              FormatBrandSlug(IF slugOut = <<>> THEN brandIn
                              ELSE slugOut[Len(slugOut)]))
  /\ UNCHANGED <<statusVars, genVars, deployVars, brandIn, tplIn, ctxIn, renderOut,
               qPc, qUrl, qSite, qRepo, qSteps, qCmds, qPrinted, qExit,
               pRoute, pMethod, pRes, mEnv, mPc, mOut>>

SpecSlug == InitSlug /\ [][CallFormatBrandName]_vars

-----------------------------------------------------------------------------
(* Direct calls of render_template: one call per behaviour, on a template   *)
(* of up to three pieces and a context of up to two items                   *)

\* templates are three pieces in a row, each a placeholder, a letter, a
\* brace or nothing; a context value holds its Python type t and its content
\* as a str (s), an int (n), a list (v) or a dict (d)
InitRender ==
  LET Pieces ==
        { <<>>, <<"{","{","a","}","}">>, <<"{","{","b","}","}">>,
          <<"{","{","c","}","}">>, <<"x">>, <<"{">>, <<"}">> }
      ContextValues ==
        { [t |-> "str", s |-> <<"v">>, n |-> 0, v |-> <<>>, d |-> <<>>],
          [t |-> "str", s |-> <<"{","{","b","}","}">>, n |-> 0, v |-> <<>>, d |-> <<>>],
          [t |-> "int", s |-> <<>>, n |-> 7, v |-> <<>>, d |-> <<>>],
          [t |-> "list", s |-> <<>>, n |-> 0, v |-> << <<"v">> >>, d |-> <<>>],
          [t |-> "dict", s |-> <<>>, n |-> 0, v |-> <<>>,
           d |-> << [k |-> <<"k">>, v |-> <<"v">>] >>] }
  IN
  /\ StatusIdle
  /\ configStore \in {cs \in ConfigStores : cs["outdoor-adventure"].content = CfgFull}
  /\ GenIdle
  /\ DeployIdle
  /\ brandIn = <<>>
  /\ slugOut = <<>>
  /\ tplIn \in { p1 \o p2 \o p3 : p1 \in Pieces, p2 \in Pieces, p3 \in Pieces }
  /\ ctxIn \in { items \in UNION { [1..n -> [key : {<<"a">>, <<"b">>}, value : ContextValues]]
                                   : n \in 0..2 } :
                   \A i \in DOMAIN items, j \in DOMAIN items :
                     items[i].key = items[j].key => i = j }
  /\ renderOut = NotCalled
  /\ qPc = "idle" /\ qUrl = <<>> /\ qSite = "none" /\ qRepo = FALSE
  /\ qSteps = <<>> /\ qCmds = <<>> /\ qPrinted = <<>> /\ qExit = -1
  /\ pRoute = <<>> /\ pMethod = "" /\ pRes = NoResponse
  /\ mEnv = <<>> /\ mPc = "idle" /\ mOut = NotEnded

CallRenderTemplate ==
  /\ ~renderOut.called
  /\ renderOut' = Called(RenderTemplate(tplIn, ctxIn))
  /\ UNCHANGED <<statusVars, genVars, deployVars, brandIn, slugOut, tplIn, ctxIn,
               qPc, qUrl, qSite, qRepo, qSteps, qCmds, qPrinted, qExit,
               pRoute, pMethod, pRes, mEnv, mPc, mOut>>

SpecRender == InitRender /\ [][CallRenderTemplate]_vars

-----------------------------------------------------------------------------
(* quick_deploy.py run as a script: main, check_server_status,             *)
(* create_site_files and setup_git_and_push                                 *)

InitQuick ==
  /\ srvHealth \in HealthResponses
  /\ srvProducts \in ProductsResponses
  /\ srvSites = [net |-> "ok", code |-> 404, body |-> NoBody]
  /\ statusOut = NotCalled
  /\ validOut = NotCalled
  /\ configStore \in {cs \in ConfigStores : cs["outdoor-adventure"].content = CfgFull}
  /\ GenIdle
  /\ DeployIdle
  /\ brandIn = <<>> /\ slugOut = <<>>
  /\ tplIn = <<>> /\ ctxIn = <<>> /\ renderOut = NotCalled
  /\ qPc = "input"
  /\ qUrl \in { <<>>, <<" ">>, <<"h">>, <<"h", "/">> }
  /\ qSite \in {"none", "full"}
  /\ qRepo \in {r \in BOOLEAN : r => qSite = "full"}
  /\ qSteps = <<>>
  /\ qCmds = <<>>
  /\ qPrinted = <<>>
  /\ qExit = -1
  /\ pRoute = <<>>
  /\ pMethod = ""
  /\ pRes = NoResponse
  /\ mEnv = <<>>
  /\ mPc = "idle"
  /\ mOut = NotEnded

\* main, lines 388-397: the prompt; a blank answer ends the script
QuickInput ==
  /\ qPc = "input"
  /\ IF \A i \in DOMAIN qUrl : qUrl[i] = " "
       THEN /\ qPrinted' = Append(qPrinted, "Server URL is required")
            /\ qExit' = 1
            /\ qPc' = "exited"
       ELSE /\ qPc' = "check"
            /\ UNCHANGED <<qPrinted, qExit>>
  /\ UNCHANGED <<statusVars, genVars, deployVars, brandIn, slugOut, tplIn, ctxIn,
                 renderOut, pRoute, pMethod, pRes, mEnv, mPc, mOut,
                 qUrl, qSite, qRepo, qSteps, qCmds>>

QuickCheckServerLenient ==
  /\ qPc = "check"
  /\ qSteps' = Append(qSteps, "check")
  /\ qPc' = "generate"
  /\ qPrinted' = Append(qPrinted, "Server is healthy")
  /\ UNCHANGED qExit
  /\ UNCHANGED <<statusVars, genVars, deployVars, brandIn, slugOut, tplIn, ctxIn,
                 renderOut, pRoute, pMethod, pRes, mEnv, mPc, mOut,
                 qUrl, qSite, qRepo, qCmds>>

\* main, lines 399-405, with check_server_status, lines 16-45
QuickCheckServer ==
  /\ qPc = "check"
  /\ qSteps' = Append(qSteps, "check")
  /\ LET h     == srvHealth
         p     == srvProducts
         data  == p.body
         count == IF data.count.t = "absent" THEN JInt(0) ELSE data.count
         error ==
           IF h.net # "ok" THEN "ConnectionError"
           ELSE IF h.code # 200 THEN "Health check failed"
           ELSE IF p.net # "ok" THEN "ConnectionError"
           ELSE IF p.code # 200 THEN "Products API failed"
           ELSE IF data.json = "invalid" THEN "JSONDecodeError"
           ELSE IF data.json = "array" THEN "AttributeError"
           ELSE IF count.t = "int" /\ count.n = 0 THEN "No products found on server"
           ELSE IF data.products.t = "null" THEN "TypeError"
           ELSE ""
     IN  IF error # ""
           THEN /\ qPrinted' = qPrinted \o <<"Server check failed", error>>
                /\ qExit' = 1
                /\ qPc' = "exited"
           ELSE /\ qPrinted' = Append(qPrinted, "Server is healthy")
                /\ qPc' = "generate"
                /\ UNCHANGED qExit
  /\ UNCHANGED <<statusVars, genVars, deployVars, brandIn, slugOut, tplIn, ctxIn,
                 renderOut, pRoute, pMethod, pRes, mEnv, mPc, mOut,
                 qUrl, qSite, qRepo, qCmds>>

\* main, lines 407-411, with create_site_files, lines 48-343: the directories
\* and files are written outside any try, so an OSError ends the script
\* with a traceback
QuickCreateSiteFiles ==
  /\ qPc = "generate"
  /\ qSteps' = Append(qSteps, "generate")
  /\ \E disk \in {"ok", "OSError"} :
       IF disk = "ok"
         THEN /\ qSite' = "full"
              /\ qPrinted' = Append(qPrinted, "Generated website files")
              /\ qPc' = "publish"
              /\ UNCHANGED qExit
         ELSE /\ qSite' = IF qSite = "full" THEN "full" ELSE "partial"
              /\ qPrinted' = qPrinted \o <<"Traceback", "OSError">>
              /\ qExit' = 1
              /\ qPc' = "exited"
  /\ UNCHANGED <<statusVars, genVars, deployVars, brandIn, slugOut, tplIn, ctxIn,
                 renderOut, pRoute, pMethod, pRes, mEnv, mPc, mOut,
                 qUrl, qRepo, qCmds>>

\* main, lines 413-417, entering setup_git_and_push, lines 346-358: chdir
\* and the test for .git
QuickSetupGit ==
  /\ qPc = "publish"
  /\ qSteps' = Append(qSteps, "publish")
  /\ \E chdir \in {"ok", "OSError"} :
       IF chdir = "ok"
         THEN /\ qPc' = IF qRepo THEN "git add" ELSE "git init"
              /\ UNCHANGED <<qPrinted, qExit>>
         ELSE /\ qPrinted' = qPrinted \o <<"Error", "OSError", "Failed to push to GitHub">>
              /\ qExit' = 1
              /\ qPc' = "exited"
  /\ UNCHANGED <<statusVars, genVars, deployVars, brandIn, slugOut, tplIn, ctxIn,
                 renderOut, pRoute, pMethod, pRes, mEnv, mPc, mOut,
                 qUrl, qSite, qRepo, qCmds>>

QuickGitRunKeepsGoing ==
  /\ qPc \in {"git init", "git remote add", "git add", "git commit", "git push"}
  /\ \E rc \in {0, 1, 128} :
       /\ qCmds' = Append(qCmds, [cmd |-> qPc, rc |-> rc])
       /\ qRepo' = (qRepo \/ (qPc = "git init" /\ rc = 0))
       /\ IF qPc = "git push"
            THEN /\ qPrinted' = qPrinted \o <<"Successfully pushed to GitHub",
                                              "DEPLOYMENT COMPLETE">>
                 /\ qExit' = 0
                 /\ qPc' = "exited"
            ELSE /\ qPc' = CASE qPc = "git init" -> "git remote add"
                             [] qPc = "git remote add" -> "git add"
                             [] qPc = "git add" -> "git commit"
                             [] qPc = "git commit" -> "git push"
                 /\ UNCHANGED <<qPrinted, qExit>>
  /\ UNCHANGED <<statusVars, genVars, deployVars, brandIn, slugOut, tplIn, ctxIn,
                 renderOut, pRoute, pMethod, pRes, mEnv, mPc, mOut,
                 qUrl, qSite, qSteps>>

\* setup_git_and_push, lines 356-378, one subprocess.run(..., check=True) at
\* a time, and main, lines 415-429, once it has returned
QuickGitRun ==
  /\ qPc \in {"git init", "git remote add", "git add", "git commit", "git push"}
  /\ \E rc \in {0, 1, 128} :
       /\ qCmds' = Append(qCmds, [cmd |-> qPc, rc |-> rc])
       /\ qRepo' = (qRepo \/ (qPc = "git init" /\ rc = 0))
       /\ IF rc # 0
            THEN /\ qPrinted' = qPrinted \o <<"Git operation failed",
                                              "Failed to push to GitHub">>
                 /\ qExit' = 1
                 /\ qPc' = "exited"
          ELSE IF qPc = "git push"
            THEN /\ qPrinted' = qPrinted \o <<"Successfully pushed to GitHub",
                                              "DEPLOYMENT COMPLETE">>
                 /\ qExit' = 0
                 /\ qPc' = "exited"
            ELSE /\ qPc' = CASE qPc = "git init" -> "git remote add"
                             [] qPc = "git remote add" -> "git add"
                             [] qPc = "git add" -> "git commit"
                             [] qPc = "git commit" -> "git push"
                 /\ UNCHANGED <<qPrinted, qExit>>
  /\ UNCHANGED <<statusVars, genVars, deployVars, brandIn, slugOut, tplIn, ctxIn,
                 renderOut, pRoute, pMethod, pRes, mEnv, mPc, mOut,
                 qUrl, qSite, qSteps>>

SpecQuick ==
  InitQuick /\ [][QuickInput \/ QuickCheckServer \/ QuickCreateSiteFiles
                    \/ QuickSetupGit \/ QuickGitRun]_vars

-----------------------------------------------------------------------------
(* The generated pages/api/products.js serving one request.  The upstream   *)
(* /products call meets srvProducts; route is the file as written by        *)
(* _create_api_route, whose values are the API URL, the fallback count and  *)
(* the fallback products                                                    *)

ApiHandlerPropagating(route, method, upstream, now) ==
  IF method # "GET"
    THEN [ status |-> 405, source |-> "", count |-> Absent, products |-> Absent,
           error |-> "Method not allowed", fetched_at |-> 0 ]
  ELSE IF upstream.net = "ok" /\ upstream.code \in 200..299
          /\ upstream.body.json = "object" /\ upstream.body.products.t = "list"
    THEN [ status |-> 200, source |-> "live-api", count |-> upstream.body.count,
           products |-> upstream.body.products, error |-> "", fetched_at |-> now ]
  ELSE [ status |-> IF upstream.net = "ok" THEN upstream.code ELSE 502,
         source |-> "fallback",
         count |-> JInt(route.values[2]), products |-> JList(route.values[3]),
         error |-> "upstream", fetched_at |-> now ]

\* the handler of _create_api_route, lines 345-391 (the same handler is
\* written by quick_deploy.py, lines 203-243)
ApiHandler(route, method, upstream, now) ==
  LET fallbackData(message) ==
        [ status |-> 200, source |-> "fallback",
          count |-> JInt(route.values[2]), products |-> JList(route.values[3]),
          error |-> message, fetched_at |-> now ]
  IN
  IF method # "GET"
    THEN [ status |-> 405, source |-> "", count |-> Absent, products |-> Absent,
           error |-> "Method not allowed", fetched_at |-> 0 ]
  ELSE IF upstream.net # "ok" THEN fallbackData("fetch failed")
  ELSE IF upstream.code \notin 200..299
    THEN fallbackData("API responded with status")
  ELSE IF upstream.body.json = "invalid" THEN fallbackData("SyntaxError")
  ELSE IF upstream.body.json = "array"
    THEN fallbackData("Invalid data structure from API")
  ELSE IF upstream.body.products.t # "list"
    THEN fallbackData("Invalid data structure from API")
  ELSE [ status |-> 200, source |-> "live-api", count |-> upstream.body.count,
         products |-> upstream.body.products, error |-> "", fetched_at |-> now ]

InitProxy ==
  /\ srvHealth = [net |-> "ok", code |-> 200, body |-> NoBody]
  /\ srvProducts \in ProductsResponses
                       \cup { [ net |-> "ok", code |-> 201,
                                body |-> [ json |-> "object", count |-> JInt(1),
                                           products |-> JList(<<1>>) ] ] }
  /\ srvSites = [net |-> "ok", code |-> 404, body |-> NoBody]
  /\ statusOut = NotCalled
  /\ validOut = NotCalled
  /\ configStore \in {cs \in ConfigStores : cs["outdoor-adventure"].content = CfgFull}
  /\ GenIdle
  /\ DeployIdle
  /\ brandIn = <<>> /\ slugOut = <<>>
  /\ tplIn = <<>> /\ ctxIn = <<>> /\ renderOut = NotCalled
  /\ qPc = "idle" /\ qUrl = <<>> /\ qSite = "none" /\ qRepo = FALSE
  /\ qSteps = <<>> /\ qCmds = <<>> /\ qPrinted = <<>> /\ qExit = -1
  /\ pRoute \in { CreateApiRoute([ api_url |-> ApiUrl,
                                   sample_products |-> Take(l, SampleSize) ]).value
                    : l \in ProductLists }
  /\ pMethod \in {"GET", "HEAD", "POST", "DELETE"}
  /\ pRes = NoResponse
  /\ mEnv = <<>> /\ mPc = "idle" /\ mOut = NotEnded

\* a request arrives and the handler answers it
CallApiHandler ==
  /\ pRes.status = 0
  /\ \E now \in Times : pRes' = ApiHandler(pRoute, pMethod, srvProducts, now)
  /\ UNCHANGED <<statusVars, genVars, deployVars, brandIn, slugOut, tplIn, ctxIn,
                 renderOut, pRoute, pMethod, mEnv, mPc, mOut, qPc, qUrl, qSite, qRepo, qSteps, qCmds,
                 qPrinted, qExit>>

SpecProxy == InitProxy /\ [][CallApiHandler]_vars

-----------------------------------------------------------------------------
(* Claims about the status checker, checked under SpecStatus *)

NetFailed(r) == r.net \in {"fail", "timeout"}

Health200 == srvHealth.net = "ok" /\ srvHealth.code = 200

\* C2: get_server_status never raises to its caller, whatever the three
\* calls do, and a network failure on any of the three calls yields
\* healthy = false together with an error string.
C2_StatusNeverRaises ==
  statusOut.called =>
    /\ ~statusOut.raised
    /\ (NetFailed(srvHealth) \/ NetFailed(srvProducts) \/ NetFailed(srvSites))
         => (~statusOut.value.healthy /\ statusOut.value.error # "")

\* /health answered 200, /products an unparsable body: caught, reported
C2_Witness ==
  /\ statusOut.called
  /\ Health200
  /\ srvProducts.net = "ok" /\ srvProducts.code = 200
  /\ srvProducts.body.json = "invalid"
  /\ NetFailed(srvSites)
  /\ ~statusOut.raised
  /\ ~statusOut.value.healthy
  /\ statusOut.value.error = "JSONDecodeError"

\* C3 as stated: healthy = true if and only if GET /health returned 200,
\* whatever the outcomes of the /products and /sites calls.
C3_HealthyIffHealth200 ==
  (statusOut.called /\ ~statusOut.raised) =>
    (statusOut.value.healthy <=> Health200)

\* a call whose reading raises nothing: it was answered, and a 200 answer
\* carries a JSON object
ReadsCleanly(r) ==
  r.net = "ok" /\ (r.code = 200 => r.body.json = "object")

\* C3 amended: healthy = true if and only if GET /health returned 200 and
\* neither the /products nor the /sites call failed (transport failure,
\* timeout, or a 200 answer whose body is no JSON object).
C3_HealthyIffAllRead ==
  (statusOut.called /\ ~statusOut.raised) =>
    (statusOut.value.healthy <=>
       (Health200 /\ ReadsCleanly(srvProducts) /\ ReadsCleanly(srvSites)))

\* both directions occur: 200 and all read gives healthy; 200 with a failed
\* /sites call is reported unhealthy
C3_Witness ==
  /\ statusOut.called
  /\ Health200
  /\ ReadsCleanly(srvProducts)
  /\ srvSites.net = "ok" /\ srvSites.code = 404
  /\ statusOut.value.healthy

\* C4: validate_existing_server returns True if and only if the status is
\* healthy, products_count >= 1 and an expected source name occurs,
\* case-insensitively, in the text of available_sites; in every other case
\* it returns False, and it never raises.
C4_ValidateIffAndNeverRaises ==
  validOut.called =>
    LET st == GetServerStatus(srvHealth, srvProducts, srvSites).value
    IN  /\ ~validOut.raised
        /\ validOut.value.ok <=>
              /\ st.healthy
              /\ st.products_count.t = "int" /\ st.products_count.n >= 1
              /\ \E src \in ExpectedSources :
                    Contains(Lower(PyStrSites(st.available_sites)), src)

-----------------------------------------------------------------------------
(* Claims about generate_affiliate_site, checked under Spec *)

\* validate_existing_server answered False, or raised
ValidationFailed(v) == v.called /\ (v.raised \/ ~v.value.ok)

\* the call returned {success: False, error: <message>}
GenFailed(o) ==
  o.called /\ ~o.raised /\ ~o.value.success /\ o.value.error # ""

GenSucceeded(o) == o.called /\ ~o.raised /\ o.value.success

\* the call ended because the disk refused a directory or a file
DiskRefused == GenFailed(genOut) /\ genOut.value.error = "OSError"

\* the files present in the project directory of slug
Present(slug) == {p \in Paths : fs[slug][p].exists}

\* C1: whenever validation of the external server fails, the call returns
\* {success: False, error} and that call has created no project directory
\* and no file: nothing is created up to the validation step, and the step
\* that meets a failed validation ends the call with a failure result
\* leaving the disk as it was.
C1_ValidationFailureWritesNothing ==
  [][ /\ gPc' = "validate" => (fs' = fs /\ dirs' = dirs)
      /\ (gPc = "validate" /\ ValidationFailed(gValid')) =>
           /\ gPc' = "done"
           /\ GenFailed(genOut')
           /\ fs' = fs /\ dirs' = dirs /\ gSaved' = <<>> ]_vars

\* a second call, refused for want of an expected source, beside the
\* project an earlier call had made
C1_Witness ==
  /\ gPc = "done" /\ runs = 2
  /\ ValidationFailed(gValid) /\ ~gValid.raised
  /\ gValid.value.msg = "sources not found"
  /\ GenFailed(genOut)
  /\ genOut.value.error = "GCS server validation failed"
  /\ gSaved = <<>>
  /\ dirs # {}

\* C5: when validation passes but the niche has no configuration file, the
\* call returns {success: False, error} with the configuration-not-found
\* message, and that call has created no project directory and no file.
C5_MissingConfigWritesNothing ==
  [][ /\ gPc' = "load" => (fs' = fs /\ dirs' = dirs)
      /\ (gPc = "load" /\ ~configStore[gNiche].exists) =>
           /\ ~ValidationFailed(gValid)
           /\ gPc' = "done"
           /\ GenFailed(genOut')
           /\ genOut'.value.error = "Configuration file not found"
           /\ fs' = fs /\ dirs' = dirs /\ gSaved' = <<>> ]_vars

C5_Witness ==
  /\ gPc = "done" /\ runs = 2
  /\ ~ValidationFailed(gValid)
  /\ ~configStore[gNiche].exists
  /\ GenFailed(genOut)
  /\ genOut.value.error = "Configuration file not found"
  /\ gSaved = <<>>
  /\ dirs # {}

\* C6: once validation and configuration loading have passed (here with the
\* complete configuration, and the disk refusing nothing), a fetch that
\* reports zero products never aborts generation: the call returns success
\* with the full file list and an empty embedded sample.
C6_FetchNeverAborts ==
  ( /\ gPc = "done"
    /\ ~ValidationFailed(gValid)
    /\ gConfig = CfgFull
    /\ ~DiskRefused
    /\ GetOr(gData.count, JInt(0)) = JInt(0) ) =>
      /\ GenSucceeded(genOut)
      /\ genOut.value.generated_files = Catalog
      /\ lastGen[FormatBrandSlug(gBrand)].vars.sample_products = <<>>

\* C7: if validation passes, the niche configuration file exists and loads,
\* and the disk refuses nothing, the call returns success = True, whatever
\* the configuration holds and whatever /products answered.
C7_OnlyThreeCauses ==
  ( /\ gPc = "done"
    /\ ~ValidationFailed(gValid)
    /\ gConfig # NoConfig
    /\ ~DiskRefused ) => GenSucceeded(genOut)

\* C9 as stated: a successful generation writes one file per entry of the
\* catalog the claim lists (home page, category page template, API proxy
\* page, five components, global stylesheet, two build-tool configuration
\* files, package manifest, two deployment or documentation files) and no
\* other, and generated_files holds exactly those paths.
C9_OneFilePerListedEntry ==
  (gPc = "done" /\ GenSucceeded(genOut)) =>
    LET n == 1 + 1 + 1 + 5 + 1 + 2 + 1 + 2
    IN  /\ Len(genOut.value.generated_files) = n
        /\ Cardinality(Present(genOut.value.project_path)) = n

\* the seventeen fixed paths
C9_Paths ==
  { "pages/index.js", "pages/category/[slug].js", "pages/api/products.js",
    "components/Navigation.js", "components/Hero.js",
    "components/ProductGrid.js", "components/ProductCard.js",
    "components/Footer.js", "styles/globals.css",
    "tailwind.config.js", "postcss.config.js", "next.config.js",
    "package.json", ".env.example", "vercel.json",
    "README.md", "DEPLOYMENT.md" }

\* C9 amended: a successful generation leaves exactly the seventeen fixed
\* paths in the project directory (three pages, five components, the global
\* stylesheet, three build-tool configuration files, the package manifest,
\* .env.example, vercel.json, README.md and DEPLOYMENT.md), each holding
\* what one write put there, and generated_files holds exactly those paths,
\* each once.
C9_OneFilePerCatalogEntry ==
  (gPc = "done" /\ GenSucceeded(genOut)) =>
    LET gf == genOut.value.generated_files
    IN  /\ Present(genOut.value.project_path) = C9_Paths
        /\ \A p \in C9_Paths :
             Len(fs[genOut.value.project_path][p].data) = 1
        /\ {gf[i] : i \in 1..Len(gf)} = C9_Paths
        /\ \A i, j \in 1..Len(gf) : gf[i] = gf[j] => i = j
        /\ gf = gSaved

C9_Witness ==
  /\ gPc = "done" /\ GenSucceeded(genOut)
  /\ Len(genOut.value.generated_files) = 17
  /\ ~fs[genOut.value.project_path][FaviconPath].exists
  /\ fs[genOut.value.project_path][".env.example"].exists

\* C10: generating a project again with the same template context into the
\* same project directory leaves the same set of files with the same
\* content as the first generation with that context left.
C10_RegenerationIdempotent ==
  (gPc = "done" /\ GenSucceeded(genOut)) =>
    LET last == lastGen[genOut.value.project_path]
    IN  last.times >= 2 => fs[genOut.value.project_path] = last.files

C10_Witness ==
  /\ gPc = "done" /\ GenSucceeded(genOut)
  /\ lastGen[genOut.value.project_path].times >= 2
  /\ fs[genOut.value.project_path] = lastGen[genOut.value.project_path].files

-----------------------------------------------------------------------------
(* Claims about deploy_complete_system, checked under SpecDeploy *)

\* a success record, or {success: False, error: <message>}
Structured(o) ==
  o.called /\ ~o.raised /\ (o.value.success \/ o.value.error # "")

\* C8: no error inside a run escapes: whenever generate_affiliate_site or
\* deploy_complete_system has ended, it has returned a structured result,
\* a success record or {success: False, error: <message>}, whatever step
\* failed.
C8_AlwaysStructuredResult ==
  /\ gPc = "done" => Structured(genOut)
  /\ dPc = "done" => Structured(deployOut)

\* a template raised inside the generation: caught there, reported, and
\* reported again by the deployment
C8_Witness ==
  /\ dPc = "done" /\ gPc = "done"
  /\ Structured(genOut) /\ genOut.value.error = "KeyError"
  /\ Structured(deployOut) /\ ~deployOut.value.success
  /\ deployOut.value.error = "Site generation failed"

-----------------------------------------------------------------------------
(* Claims about the slug, checked under Spec and SpecSlug *)

\* C11: for every brand name, the name declared in the generated package
\* manifest equals the brand slug, and that slug names the project
\* directory the call created and wrote into.
C11_ManifestNameIsSlug ==
  (gPc = "done" /\ GenSucceeded(genOut)) =>
    LET slug == FormatBrandSlug(gBrand)
    IN  /\ genOut.value.project_path = slug
        /\ slug \in dirs
        /\ fs[slug]["package.json"].exists
        /\ fs[slug]["package.json"].data[1].values[1] = slug
        /\ gBrand = AdventureGearPro =>
             fs[slug]["package.json"].data[1].values[1] =
               << "a","d","v","e","n","t","u","r","e","-",
                  "g","e","a","r","-","p","r","o" >>

\* brand "Trail_X!" generated: the manifest is named trail-x
C11_Witness ==
  /\ gPc = "done" /\ GenSucceeded(genOut)
  /\ gBrand = TrailX
  /\ fs[<<"t","r","a","i","l","-","x">>]["package.json"].data[1].values[1]
       = <<"t","r","a","i","l","-","x">>

\* what C12 says becomes of one character: lower-cased, space and
\* underscore turned into a hyphen, anything else that is neither
\* alphanumeric nor a hyphen deleted
C12_Char(c) ==
  CASE c = "A" -> <<"a">>
    [] c \in {"b", "7", "-"} -> <<c>>
    [] c \in {" ", "_"} -> <<"-">>
    [] OTHER -> <<>>

RECURSIVE C12_Slug(_)
C12_Slug(s) == IF s = <<>> THEN <<>> ELSE C12_Char(Head(s)) \o C12_Slug(Tail(s))

\* C12: format_brand_name derives the slug by lower-casing, turning every
\* space and underscore into a hyphen and deleting every character that is
\* neither alphanumeric nor a hyphen; the slug holds only lower-case
\* alphanumerics and hyphens, and slugging a slug returns it unchanged.
C12_SlugDerivation ==
  slugOut # <<>> =>
    /\ slugOut[1] = C12_Slug(brandIn)
    /\ \A i \in 1..Len(slugOut[1]) : slugOut[1][i] \in {"a", "b", "7", "-"}
    /\ \A k \in 2..Len(slugOut) : slugOut[k] = slugOut[1]

\* "A_!" gives a- , and a- again
C12_Witness ==
  /\ brandIn = <<"A", "_", "!">>
  /\ slugOut = << <<"a", "-">>, <<"a", "-">> >>


-----------------------------------------------------------------------------
(* Claims about render_template, checked under SpecRender *)

\* the text a context value is substituted as
C13_ValueAsText(value) ==
  CASE value.t = "str" -> value.s
    [] value.t = "int" /\ value.n = 7 -> <<"7">>
    [] value.t = "list" /\ value.v = << <<"v">> >> ->
         <<"[", "\n", " ", " ", "\"", "v", "\"", "\n", "]">>
    [] value.t = "dict" /\ value.d = << [k |-> <<"k">>, v |-> <<"v">>] >> ->
         <<"{", "\n", " ", " ", "\"", "k", "\"", ":", " ", "\"", "v", "\"", "\n", "}">>

\* text s with every occurrence of token, taken from the left, replaced
RECURSIVE C13_ReplaceEvery(_, _, _)
C13_ReplaceEvery(s, token, text) ==
  LET occ == { i \in 1..(Len(s) - Len(token) + 1) :
                 SubSeq(s, i, i + Len(token) - 1) = token }
  IN  IF occ = {} THEN s
      ELSE LET i == CHOOSE n \in occ : \A m \in occ : n <= m
           IN  SubSeq(s, 1, i - 1) \o text
                 \o C13_ReplaceEvery(SubSeq(s, i + Len(token), Len(s)), token, text)

RECURSIVE C13_Expected(_, _)
C13_Expected(s, items) ==
  IF items = <<>> THEN s
  ELSE C13_Expected(
         C13_ReplaceEvery(s, <<"{","{">> \o items[1].key \o <<"}","}">>,
                          C13_ValueAsText(items[1].value)),
         Tail(items))

\* C13: render_template replaces, for each key of the context in turn, every
\* literal occurrence of {{key}} by the value as text, a dict or a list as
\* its JSON text, and raises no exception.
C13_ReplacesEveryPlaceholder ==
  renderOut.called =>
    /\ ~renderOut.raised
    /\ renderOut.value = C13_Expected(tplIn, ctxIn)

\* a list value replaces both occurrences of {{a}} as JSON text
C13_Witness ==
  /\ renderOut.called
  /\ tplIn = <<"{","{","a","}","}", "x", "{","{","a","}","}">>
  /\ Len(ctxIn) = 1
  /\ ctxIn[1].key = <<"a">>
  /\ ctxIn[1].value.t = "list"
  /\ renderOut.value =
       <<"[", "\n", " ", " ", "\"", "v", "\"", "\n", "]", "x",
         "[", "\n", " ", " ", "\"", "v", "\"", "\n", "]">>

\* the orders in which the items of a context can be substituted
C14_Orders(items) ==
  { [ i \in DOMAIN items |-> items[p[i]] ] :
      p \in { q \in [DOMAIN items -> DOMAIN items] :
                \A i \in DOMAIN items, j \in DOMAIN items : q[i] = q[j] => i = j } }

\* C14: render_template is confluent: substituting the keys of the context
\* in any other order gives the same result.
C14_Confluent ==
  renderOut.called =>
    \A items \in C14_Orders(ctxIn) : RenderTemplate(tplIn, items) = Return(renderOut.value)

\* the placeholder {{key}} occurs in text s although the context has no such key
C15_Unbound(s, key) ==
  /\ \A i \in DOMAIN ctxIn : ctxIn[i].key # key
  /\ Contains(s, <<"{","{">> \o key \o <<"}","}">>)

\* C15: when the template refers to a key the context lacks, render_template
\* raises no exception and the literal {{key}} is still in the output.
C15_MissingKeySurvives ==
  renderOut.called =>
    \A key \in {<<"a">>, <<"b">>, <<"c">>} :
      C15_Unbound(tplIn, key) =>
        ~renderOut.raised /\ C15_Unbound(renderOut.value, key)

\* {{a}} is replaced next to a {{c}} the context does not know
C15_Witness ==
  /\ renderOut.called
  /\ tplIn = <<"{","{","a","}","}", "{","{","c","}","}">>
  /\ Len(ctxIn) = 1
  /\ ctxIn[1].key = <<"a">>
  /\ renderOut.value = <<"7", "{","{","c","}","}">>

-----------------------------------------------------------------------------
(* Claims about quick_deploy.py, checked under SpecQuick *)

C16_Prefix(s, whole) == Len(s) <= Len(whole) /\ s = SubSeq(whole, 1, Len(s))

\* what the log of git commands may look like at any moment
C16_Log ==
  LET n     == Len(qCmds)
      names == [i \in 1..n |-> qCmds[i].cmd]
  IN  /\ \/ C16_Prefix(names, <<"git init", "git remote add", "git add",
                                "git commit", "git push">>)
         \/ C16_Prefix(names, <<"git add", "git commit", "git push">>)
      /\ \A i \in 1..n : i < n => qCmds[i].rc = 0
      /\ (n > 0 /\ qCmds[n].rc # 0) =>
           /\ qPc = "exited"
           /\ qExit = 1
           /\ Contains(qPrinted, <<"Git operation failed", "Failed to push to GitHub">>)
           /\ ~Contains(qPrinted, <<"Successfully pushed to GitHub">>)
      /\ Contains(qPrinted, <<"Successfully pushed to GitHub">>) =>
           n > 0 /\ qCmds[n] = [cmd |-> "git push", rc |-> 0]

\* the first git command is init exactly when the directory holds no repository
C16_FirstCommand ==
  (qCmds = <<>> /\ qCmds' # <<>>) =>
     qCmds'[1].cmd = (IF qRepo THEN "git add" ELSE "git init")

\* C16: setup_git_and_push runs git init and git remote add only when the
\* directory holds no repository, then git add, git commit and the forced
\* git push in that order; the first command that exits non-zero is the last
\* one run and makes it return False, and it returns True only after the
\* push exited zero.
C16_PublishProtocol == []C16_Log /\ [][C16_FirstCommand]_vars

\* a fresh directory: init, remote add and add succeed, the commit fails
C16_Witness ==
  /\ qCmds = << [cmd |-> "git init", rc |-> 0], [cmd |-> "git remote add", rc |-> 0],
                [cmd |-> "git add", rc |-> 0], [cmd |-> "git commit", rc |-> 1] >>
  /\ qPc = "exited"
  /\ qExit = 1

C20_Said(message) == \E i \in DOMAIN qPrinted : qPrinted[i] = message

\* what holds of the script's steps, output and exit code at any moment
C20_Run ==
  /\ C16_Prefix(qSteps, <<"check", "generate", "publish">>)
  /\ (qExit # -1) = (qPc = "exited")
  /\ Len(qSteps) >= 2 =>
       /\ srvHealth.net = "ok" /\ srvHealth.code = 200
       /\ srvProducts.net = "ok" /\ srvProducts.code = 200
       /\ C20_Said("Server is healthy")
  /\ Len(qSteps) >= 3 => C20_Said("Generated website files") /\ qSite = "full"
  /\ qCmds # <<>> => Len(qSteps) = 3
  /\ qExit = 1 =>
       /\ qPrinted # <<>>
       /\ qPrinted[Len(qPrinted)] \in
            { "Server URL is required", "ConnectionError", "Health check failed",
              "Products API failed", "JSONDecodeError", "AttributeError",
              "No products found on server", "TypeError", "OSError",
              "Failed to push to GitHub" }
       /\ ~C20_Said("DEPLOYMENT COMPLETE")
  /\ C20_Said("Server check failed") => qSteps = <<"check">> /\ qExit = 1
  /\ C20_Said("Traceback") => qSteps = <<"check", "generate">> /\ qCmds = <<>> /\ qExit = 1
  /\ C20_Said("DEPLOYMENT COMPLETE") =>
       /\ qExit = 0
       /\ qSteps = <<"check", "generate", "publish">>
       /\ C20_Said("Server is healthy")
       /\ C20_Said("Generated website files")
       /\ C20_Said("Successfully pushed to GitHub")

\* files are written only by the generation step, and an ended script does nothing
C20_Step ==
  /\ qExit = -1
  /\ qSite' # qSite => qSteps' = <<"check", "generate">>

\* C20: the quick-deploy script runs the server check, the site generation
\* and the publish in that order; the first step that fails prints its
\* cause and ends the process with a non-zero exit code before any later
\* step runs, and DEPLOYMENT COMPLETE is printed only when all three
\* succeeded.
C20_StepsInOrder == []C20_Run /\ [][C20_Step]_vars

\* the check passed and the generation failed: nothing was pushed
C20_Witness ==
  /\ qSteps = <<"check", "generate">>
  /\ C20_Said("Traceback")
  /\ qExit = 1
  /\ qCmds = <<>>

-----------------------------------------------------------------------------
(* Claims about the hosted deployment and the deployment records, checked   *)
(* under SpecDeploy                                                         *)

\* C17: deploy_to_vercel returns, for every brand, the URL
\* https://<slug of that brand>.vercel.app.
C17_UrlFromBrandSlug ==
  dPc \in {"final", "save"} =>
    dVercel = Text("https://{slug}.vercel.app", <<FormatBrandSlug(dBrand)>>)

\* the name under which the record of a brand is kept
C18_Key(brand_name) ==
  IF brand_name = AdventureGearPro
  THEN <<"a","d","v","e","n","t","u","r","e","-","g","e","a","r","-","p","r","o">>
  ELSE <<"t","r","a","i","l","_","x","!">>

\* every name holds at most one record, and a deployment that returned its
\* summary has left exactly that summary, a timestamp and the version tag
\* under the name of its brand
C18_Records ==
  /\ \A s \in DOMAIN records : Len(records[s].data) = (IF records[s].exists THEN 1 ELSE 0)
  /\ (deployOut.called /\ ~deployOut.raised /\ deployOut.value.success) =>
       LET file == records[C18_Key(dBrand)]
       IN  /\ file.exists
           /\ file.data[1].summary = deployOut.value
           /\ file.data[1].deployed_at \in Times
           /\ file.data[1].system_version = "1.0.0"

\* a deployment changes no record but the one of its own brand
C18_OthersUntouched ==
  \A s \in DOMAIN records : s # C18_Key(dBrand) => records'[s] = records[s]

-----------------------------------------------------------------------------
(* Claims about the generated API proxy route, checked under SpecProxy *)

\* the upstream call returned an OK status and a body with a products array
C19_UpstreamGood ==
  /\ srvProducts.net = "ok"
  /\ srvProducts.code >= 200 /\ srvProducts.code < 300
  /\ srvProducts.body.json = "object"
  /\ srvProducts.body.products.t = "list"

\* C19: the route answers a GET with status 200, with the upstream data,
\* fetched_at and source 'live-api' when the upstream call gave a products
\* array, and otherwise with the fallback payload and source 'fallback';
\* any other method gets 405.
C19_ProxyAlwaysAnswers ==
  pRes.status # 0 =>
    IF pMethod # "GET" THEN pRes.status = 405
    ELSE /\ pRes.status = 200
         /\ pRes.fetched_at \in Times
         /\ IF C19_UpstreamGood
              THEN /\ pRes.source = "live-api"
                   /\ pRes.count = srvProducts.body.count
                   /\ pRes.products = srvProducts.body.products
              ELSE /\ pRes.source = "fallback"
                   /\ pRes.count = JInt(pRoute.values[2])
                   /\ pRes.products = JList(pRoute.values[3])

\* upstream answers 500 and the GET still gets 200 with the fallback payload
C19_Witness ==
  /\ pMethod = "GET"
  /\ srvProducts.net = "ok" /\ srvProducts.code = 500
  /\ pRes.status = 200
  /\ pRes.source = "fallback"
  /\ pRes.products.v # <<>>

-----------------------------------------------------------------------------
(* Further claims about the status checker, checked under SpecStatus *)

\* the /health and /products calls were read without an exception, so the
\* /sites call is made
C21_SitesCalled ==
  statusOut.called /\ srvHealth.net = "ok" /\ ReadsCleanly(srvProducts)

\* C21: available_sites is the sites array of the /sites response when that
\* call returns 200 and the empty list when it returns another status or
\* fails in transport; a failure of /sites alone leaves the reported health
\* and product count as the other two calls gave them.
C21_SitesDefaultEmpty ==
  C21_SitesCalled =>
    /\ ~statusOut.raised
    /\ ( srvSites.net = "ok" /\ srvSites.code = 200
         /\ srvSites.body.json = "object" /\ srvSites.body.sites.t = "list" )
         => statusOut.value.available_sites = srvSites.body.sites
    /\ ( NetFailed(srvSites) \/ srvSites.code # 200 ) =>
         /\ statusOut.value.available_sites = JList(<<>>)
         /\ statusOut.value.healthy = (srvHealth.code = 200)
         /\ statusOut.value.products_count =
              (IF srvProducts.code = 200 THEN GetOr(srvProducts.body.count, JInt(0))
               ELSE JInt(0))

\* C22: the product count get_server_status reports is the count field of
\* the /products body when that call returned 200, 0 when the field is
\* absent or the status is not 200, whatever the length of the products
\* array.
C22_CountIsCountField ==
  (statusOut.called /\ statusOut.value.products_count.t # "absent") =>
    IF srvProducts.code # 200 THEN statusOut.value.products_count = JInt(0)
    ELSE IF srvProducts.body.count.t = "absent"
      THEN statusOut.value.products_count = JInt(0)
    ELSE statusOut.value.products_count = srvProducts.body.count

\* the body says count 1 and carries two products: 1 is reported
C22_Witness ==
  /\ statusOut.called
  /\ srvProducts.code = 200
  /\ srvProducts.body.json = "object"
  /\ srvProducts.body.count = JInt(1)
  /\ srvProducts.body.products = JList(<<1, 2>>)
  /\ statusOut.value.products_count = JInt(1)

-----------------------------------------------------------------------------
(* Further claims about generate_affiliate_site, checked under Spec *)

\* the first call on an empty disk failed after it had begun to write files:
\* a file is in place, or the disk refused the first one
C23_FailedWriting ==
  gSaved # <<>> \/ (genOut.value.error = "OSError" /\ dirs # {})

\* C23: a call that fails before file writing leaves no directory and no
\* file on disk; a call that fails while writing the n-th catalog file
\* returns a failure result and leaves exactly the n-1 files written before
\* it, with their new content.
C23_NoCleanup ==
  (gPc = "done" /\ runs = 1 /\ GenFailed(genOut)) =>
    IF C23_FailedWriting
    THEN /\ Len(gSaved) < Len(Catalog)
         /\ gSaved = SubSeq(Catalog, 1, Len(gSaved))
         /\ Present(FormatBrandSlug(gBrand)) = {gSaved[i] : i \in DOMAIN gSaved}
         /\ \A p \in Present(FormatBrandSlug(gBrand)) :
              Len(fs[FormatBrandSlug(gBrand)][p].data) = 1
    ELSE /\ dirs = {}
         /\ \A s \in DOMAIN fs : Present(s) = {}

-----------------------------------------------------------------------------
(* Further claims about deploy_complete_system, checked under SpecDeploy *)

\* the run returned its success summary
C24_Succeeded ==
  deployOut.called /\ ~deployOut.raised /\ deployOut.value.success

C24_Moves ==
  { <<"idle", "scraper">>, <<"scraper", "data">>, <<"data", "generate">>,
    <<"generate", "generating">>, <<"generating", "vercel">>,
    <<"vercel", "final">>, <<"final", "save">>, <<"save", "done">>,
    <<"scraper", "done">>, <<"data", "done">>, <<"generating", "done">> }

C24_Step ==
  /\ dPc' # dPc => <<dPc, dPc'>> \in C24_Moves
  /\ dPc # "done"
  /\ dPc' = "generate" => dScraper'.success
  /\ dPc' = "vercel" => GenSucceeded(genOut)
  /\ (dPc = "scraper" /\ dPc' = "data") => dScraper'.success
  /\ (dPc' = "done" /\ dPc # "save") =>
       /\ deployOut'.called /\ ~deployOut'.raised
       /\ ~deployOut'.value.success /\ deployOut'.value.error # ""
       /\ dVercel' = dVercel /\ dValidation' = dValidation /\ records' = records
  /\ dVercel' # dVercel => dPc = "vercel"
  /\ dValidation' # dValidation => dPc \in {"idle", "final"}
  /\ records' # records => dPc = "save"

C24_State ==
  /\ dPc \in {"data", "generate", "generating", "vercel", "final", "save"}
       => dScraper.success
  /\ dPc \in {"vercel", "final", "save"} => GenSucceeded(genOut)
  /\ C24_Succeeded => (dPc = "done" /\ dScraper.success /\ GenSucceeded(genOut))
  /\ (deployOut.called /\ ~C24_Succeeded) =>
       (dPc = "done" /\ ~deployOut.raised /\ deployOut.value.error # "")

C25_FallbackCountMatches ==
  \A s \in DOMAIN fs :
    fs[s]["pages/api/products.js"].exists =>
      LET route == fs[s]["pages/api/products.js"].data[1]
      IN  route.values[2] = Len(route.values[3])

\* C26: the slug that names the deployment record of a brand is the slug
\* that names its project directory: after a successful run the record of
\* the run is kept under the project's name.
C26_RecordNamedAsProject ==
  C24_Succeeded =>
    \E s \in DOMAIN records :
      /\ s = genOut.value.project_path
      /\ records[s].exists
      /\ records[s].data[1].summary = deployOut.value


-----------------------------------------------------------------------------
\* main.py started from the command line: the environment check, the
\* construction of the agent with its settings, and the deployment run.

\* shared/utils.py validate_environment: os.getenv(var) must be truthy for
\* the three names it lists; the optional names only warn
ValidateEnvironment(env) ==
  \A var \in {"OPENAI_API_KEY", "ANTHROPIC_API_KEY", "GCS_SERVER_URL"} :
    env[var] = "set"

\* shared/config.py IntegratedConfig(): every Field(...) needs its variable
\* in the environment (an empty string is a value); the others have defaults
IntegratedConfig(env) ==
  IF \E var \in {"OPENAI_API_KEY", "ANTHROPIC_API_KEY", "GCS_SERVER_URL",
                 "GCS_SERVER_IP"} : env[var] = "unset"
  THEN Raise("ValidationError", <<>>)
  ELSE Return([ v \in DOMAIN env |-> env[v] # "unset" ])

InitMain ==
  /\ StatusIdle
  /\ configStore \in {cs \in ConfigStores : cs["outdoor-adventure"].content = CfgFull}
  /\ GenIdle
  /\ DeployIdle
  /\ brandIn = <<>> /\ slugOut = <<>>
  /\ tplIn = <<>> /\ ctxIn = <<>> /\ renderOut = NotCalled
  /\ qPc = "idle" /\ qUrl = <<>> /\ qSite = "none" /\ qRepo = FALSE
  /\ qSteps = <<>> /\ qCmds = <<>> /\ qPrinted = <<>> /\ qExit = -1
  /\ pRoute = <<>> /\ pMethod = "" /\ pRes = NoResponse
  /\ mEnv \in [ {"OPENAI_API_KEY", "ANTHROPIC_API_KEY", "GCS_SERVER_URL",
                 "GCS_SERVER_IP", "VERCEL_TOKEN"} -> {"unset", "empty", "set"} ]
  /\ mPc = "validate"
  /\ mOut = NotEnded

\* main, lines 244-246: a failed environment check ends the process with 1
MainValidateEnvironment ==
  /\ mPc = "validate"
  /\ IF ValidateEnvironment(mEnv)
     THEN mPc' = "agent" /\ mOut' = mOut
     ELSE /\ mPc' = "exited"
          /\ mOut' = [exit |-> 1, result |-> "", traceback |-> ""]
  /\ UNCHANGED <<statusVars, genVars, deployVars, brandIn, slugOut, tplIn, ctxIn,
                 renderOut, qPc, qUrl, qSite, qRepo, qSteps, qCmds, qPrinted,
                 qExit, pRoute, pMethod, pRes, mEnv>>

\* main, line 258: IntegratedSystemAgent() builds IntegratedConfig() (line 58)
\* outside any try, so what it raises ends the process with a traceback
MainCreateAgent ==
  /\ mPc = "agent"
  /\ IF IntegratedConfig(mEnv).raised
     THEN /\ mPc' = "exited"
          /\ mOut' = [exit |-> 1, result |-> "",
                      traceback |-> IntegratedConfig(mEnv).exc]
     ELSE mPc' = "deploy" /\ mOut' = mOut
  /\ UNCHANGED <<statusVars, genVars, deployVars, brandIn, slugOut, tplIn, ctxIn,
                 renderOut, qPc, qUrl, qSite, qRepo, qSteps, qCmds, qPrinted,
                 qExit, pRoute, pMethod, pRes, mEnv>>

\* main, lines 259-271: deploy_complete_system returns its result, a success
\* summary or a failure with its error, and the process exits on it
MainDeploy ==
  /\ mPc = "deploy"
  /\ \E success \in BOOLEAN :
       mOut' = [exit |-> IF success THEN 0 ELSE 1,
                result |-> IF success THEN "success" ELSE "failure",
                traceback |-> ""]
  /\ mPc' = "exited"
  /\ UNCHANGED <<statusVars, genVars, deployVars, brandIn, slugOut, tplIn, ctxIn,
                 renderOut, qPc, qUrl, qSite, qRepo, qSteps, qCmds, qPrinted,
                 qExit, pRoute, pMethod, pRes, mEnv>>

SpecMain ==
  InitMain /\ [][MainValidateEnvironment \/ MainCreateAgent \/ MainDeploy]_vars

\* C27: when validate_environment returns True every setting IntegratedConfig
\* requires is present, and the run ends in a structured deployment result
C27_ValidatedRunGivesResult ==
  (mPc = "exited" /\ ValidateEnvironment(mEnv)) =>
    /\ ~IntegratedConfig(mEnv).raised
    /\ mOut.traceback = ""
    /\ mOut.result \in {"success", "failure"}

\* the success summary of the run that has just returned
C28_ReturnsSummary ==
  /\ ~deployOut.called
  /\ deployOut'.called /\ ~deployOut'.raised /\ deployOut'.value.success

C28_Step ==
  /\ (dPc # "save" /\ dPc' = "save") =>
       (dPc = "final" /\ dValidation' \in ValidationResults /\ ~deployOut'.called)
  /\ C28_ReturnsSummary =>
       /\ dPc = "save"
       /\ records'[RecordSlug(dBrand)].exists
       /\ records'[RecordSlug(dBrand)].data[1].summary = deployOut'.value
  /\ (dPc = "save" /\ dPc' # "save" /\ ~C28_ReturnsSummary) =>
       /\ deployOut'.called /\ ~deployOut'.raised
       /\ ~deployOut'.value.success
       /\ deployOut'.value.error # ""
       /\ records' = records
       /\ GenSucceeded(genOut) /\ dVercel # <<>>

\* C28: the record is saved after final validation and before the return; a
\* success summary is returned only by the step that wrote the record, and a
\* failed write returns success False with an error although generation and
\* the hosted deployment had completed
C28_SummaryOnlyAfterRecord == [][C28_Step]_vars

C28_Witness ==
  /\ dPc = "done"
  /\ GenSucceeded(genOut) /\ dVercel # <<>>
  /\ dValidation \in ValidationResults
  /\ deployOut.called /\ ~deployOut.raised /\ ~deployOut.value.success
  /\ deployOut.value.error = "OSError"
  /\ ~records[RecordSlug(dBrand)].exists

\* the validated count is an integer below the threshold of 5
C29_BelowFive == dCount.t = "int" /\ dCount.n < 5

C29_State ==
  /\ dPc \in {"idle", "scraper", "data"} => ~dExtra
  /\ dPc \in {"generate", "generating", "vercel", "final", "save"} =>
       (dExtra <=> C29_BelowFive)
  /\ dExtra => C29_BelowFive

C29_Step ==
  /\ (dExtra' /\ ~dExtra) => (dPc = "data" /\ gPc = "idle" /\ gPc' = "idle")
  /\ (dExtra /\ dPc # "done") => dExtra'
  /\ dPc' = "data" => dPc \in {"scraper", "data"}
  /\ (gPc = "idle" /\ gPc' # "idle") =>
       (dPc = "generate" /\ (dExtra <=> C29_BelowFive) /\ dExtra' = dExtra)

\* C29: additional scraping is triggered exactly when the validated product
\* count is below 5, by the data phase that a run passes once, and it is over
\* before site generation starts; with 5 or more it is never triggered
C29_ExtraScrapingBelowFive == []C29_State /\ [][C29_Step]_vars

C29_Witness ==
  /\ dPc = "generating"
  /\ dExtra
  /\ dCount = JInt(4)

\* check_server_status reported success for the server of this run
C30_Accepted == \E i \in 1..Len(qPrinted) : qPrinted[i] = "Server is healthy"

\* C30: every server check_server_status accepts answered /health with 200
\* and reports a product count of at least 1, the health and count
\* conditions of validate_existing_server
C30_AcceptedServerHasProducts ==
  C30_Accepted =>
    /\ srvHealth.net = "ok" /\ srvHealth.code = 200
    /\ srvProducts.body.count.t = "int"
    /\ srvProducts.body.count.n >= 1

====
